---- MODULE Spec2Model ----
(***************************************************************************)
(* Hiruyoru: the record store, the group store, the guest-data migration   *)
(* and the login-time sync of the guest local cache.                        *)
(*                                                                         *)
(* Every RPC handler is one action: the handler runs to completion on the  *)
(* tables it touches.  `last` records what the most recent call was given  *)
(* and what it returned or threw.                                           *)
(***************************************************************************)
EXTENDS Integers, Sequences, FiniteSets, TLC

VARIABLES
    db,             \* server/db.ts _db: TRUE when getDb() yields a handle
    mealRecords,    \* table meal_records: a set of rows
    mealAutoInc,    \* next AUTO_INCREMENT id of meal_records
    groups,         \* table groups
    groupAutoInc,   \* next AUTO_INCREMENT id of groups
    groupMembers,   \* table group_members
    memberAutoInc,  \* next AUTO_INCREMENT id of group_members
    last,           \* the last completed call: its input and its outcome
    handled,        \* how many meal inputs the server has been handed so far
    platform,       \* Platform.OS of the client: "web" or "native"
    storage,        \* AsyncStorage item "local_meal_records": the parsed list
    meals,          \* useLocalMeals state `meals`, per hook instance
    localMeals,     \* the `localMeals` the memoized fetchUser closes over
    user,           \* useAuth state `user` (NoUser: null)
    loading,        \* useAuth state `loading`
    error,          \* useAuth state `error`
    syncCalls,      \* the syncMutation.mutateAsync calls made so far
    userTable,      \* table users
    favoriteMeals,  \* table favorite_meals
    favoriteAutoInc, \* next AUTO_INCREMENT id of favorite_meals
    inflight,       \* the group requests under way, each at its next statement
    fetching,       \* the fetchUser call under way on the web, at its next await
    saving          \* the saveMeals calls waiting on AsyncStorage.setItem

vars == <<db, mealRecords, mealAutoInc, groups, groupAutoInc, groupMembers,
          memberAutoInc, last, handled, platform, storage, meals, localMeals, user,
          loading, error, syncCalls, userTable, favoriteMeals, favoriteAutoInc,
          inflight, fetching, saving>>

mealVars  == <<mealRecords, mealAutoInc>>
groupVars == <<groups, groupAutoInc, groupMembers, memberAutoInc>>
authVars  == <<user, loading, error, syncCalls>>
cacheVars == <<storage, meals, localMeals>>
clientVars == <<platform, authVars, cacheVars>>
tableVars == <<userTable, favoriteMeals, favoriteAutoInc>>
pendingVars == <<inflight, fetching, saving>>

----------------------------------------------------------------------------
(* Bounds and input domains *)

MaxBatch == 2       \* longest list handed to syncLocalMeals / migrateGuestData
MaxHandled == 2     \* meal inputs handed to the server over one run
MaxGroups == 2      \* at most this many groups are ever created
MaxMemberRows == 3  \* at most this many group_members rows are ever inserted
MaxLocal == 2       \* the guest local cache holds at most this many records
MaxFavorites == 2   \* at most this many favorite_meals rows are ever inserted
MaxPending == 2     \* saveMeals calls awaiting AsyncStorage.setItem at one time

Users == {1, 2}
Dates == {"2025-01-10", "2025-01-11"}
MealTypes == {"lunch", "dinner"}
DishNames == {"curry"}
Categories == {"japanese"}
CreatedAts == {"2025-01-10T03:00:00.000Z", "2025-01-11T03:00:00.000Z"}
GroupNames == {"family"}

NULL == "null"

\* One element of the syncLocalMeals / migrateGuestData input array.
LocalMealInput ==
    [date : Dates, mealType : MealTypes, dishName : DishNames,
     category : Categories, createdAt : CreatedAts]

SeqsUpTo(S, n) == UNION {[1..k -> S] : k \in 0..n}

Min(a, b) == IF a <= b THEN a ELSE b

\* The input lists the run can still hand to the server.
Batches == SeqsUpTo(LocalMealInput, Min(MaxBatch, MaxHandled - handled))

----------------------------------------------------------------------------
(* Record store (server/db.ts) *)

MealStore == [rows |-> mealRecords, autoInc |-> mealAutoInc]

Thrown(store, msg) == [threw |-> TRUE, error |-> msg, store |-> store, id |-> 0]

\* A createMealRecord that reports an insertId without the row being stored.
CreateMealRecordLosesRow(store, data, insertOk) ==
    IF ~db THEN Thrown(store, "Error: Database not available")
    ELSE IF ~insertOk THEN Thrown(store, "Error: insert failed")
    ELSE [threw |-> FALSE, error |-> NULL, id |-> store.autoInc,
          store |-> [rows |-> store.rows, autoInc |-> store.autoInc + 1]]

\* createMealRecord: throws without a database handle or when the INSERT is
\* rejected (insertOk = FALSE); otherwise adds one row and returns insertId.
CreateMealRecord(store, data, insertOk) ==
    IF ~db THEN Thrown(store, "Error: Database not available")
    ELSE IF ~insertOk THEN Thrown(store, "Error: insert failed")
    ELSE [threw |-> FALSE, error |-> NULL, id |-> store.autoInc,
          store |-> [rows    |-> store.rows \cup {[id |-> store.autoInc] @@ data},
                     autoInc |-> store.autoInc + 1]]

\* getMealsByDate: the caller's rows of one date; empty without a handle.
GetMealsByDate(rows, userId, date) ==
    IF ~db THEN {}
    ELSE {r \in rows : r.userId = userId /\ r.date = date}

\* A getTodayLunch without the mealType condition.
GetTodayLunchAnyMeal(rows, userId, date) ==
    IF ~db THEN {<<>>}
    ELSE LET result == {r \in rows : r.userId = userId /\ r.date = date}
         IN  IF Cardinality(result) > 0 THEN {<<r>> : r \in result} ELSE {<<>>}

\* getTodayLunch: the caller's lunch rows of the date, limit(1) with no
\* ORDER BY; every answer the database may give, <<row>> or <<>> (null).
GetTodayLunch(rows, userId, date) ==
    IF ~db THEN {<<>>}
    ELSE LET result == {r \in rows : r.userId = userId /\ r.date = date
                                       /\ r.mealType = "lunch"}
         IN  IF Cardinality(result) > 0 THEN {<<r>> : r \in result} ELSE {<<>>}

\* A deleteMealRecord whose DELETE filters on the id alone.
DeleteMealRecordAnyOwner(store, id, userId) ==
    IF ~db THEN Thrown(store, "Error: Database not available")
    ELSE [threw |-> FALSE, error |-> NULL, id |-> 0,
          store |-> [store EXCEPT !.rows = {r \in @ : ~(r.id = id)}]]

\* deleteMealRecord: DELETE ... WHERE id = ? AND userId = ?
DeleteMealRecord(store, id, userId) ==
    IF ~db THEN Thrown(store, "Error: Database not available")
    ELSE [threw |-> FALSE, error |-> NULL, id |-> 0,
          store |-> [store EXCEPT !.rows = {r \in @ : ~(r.id = id /\ r.userId = userId)}]]

\* The row meals.create / meals.syncLocalMeals hand to createMealRecord.
MealRow(userId, meal) ==
    [userId |-> userId, groupId |-> NULL, date |-> meal.date,
     mealType |-> meal.mealType, dishName |-> meal.dishName,
     category |-> meal.category, note |-> NULL, imageUrl |-> NULL]

\* A sync loop whose try/catch is around the whole loop: the first failing
\* insert ends the batch.
RECURSIVE SyncLoopAbortsOnFailure(_, _, _, _, _, _)
SyncLoopAbortsOnFailure(store, userId, input, insertOks, i, results) ==
    IF i > Len(input) THEN [store |-> store, results |-> results]
    ELSE LET meal == input[i]
             r    == CreateMealRecord(store, MealRow(userId, meal), insertOks[i])
         IN  IF r.threw
             THEN [store |-> store,
                   results |-> Append(results,
                       [success |-> FALSE, id |-> 0, error |-> r.error,
                        originalCreatedAt |-> meal.createdAt])]
             ELSE SyncLoopAbortsOnFailure(r.store, userId, input, insertOks, i + 1,
                      Append(results, [success |-> TRUE, id |-> r.id, error |-> NULL,
                                       originalCreatedAt |-> meal.createdAt]))

\* meals.syncLocalMeals: for (const meal of input) { try { insert; push
\* success } catch { push failure } }, from element i on.
RECURSIVE SyncLoop(_, _, _, _, _, _)
SyncLoop(store, userId, input, insertOks, i, results) ==
    IF i > Len(input) THEN [store |-> store, results |-> results]
    ELSE LET meal == input[i]
             r    == CreateMealRecord(store, MealRow(userId, meal), insertOks[i])
         IN  IF r.threw
             THEN SyncLoop(store, userId, input, insertOks, i + 1,
                      Append(results, [success |-> FALSE, id |-> 0, error |-> r.error,
                                       originalCreatedAt |-> meal.createdAt]))
             ELSE SyncLoop(r.store, userId, input, insertOks, i + 1,
                      Append(results, [success |-> TRUE, id |-> r.id, error |-> NULL,
                                       originalCreatedAt |-> meal.createdAt]))

\* migration.migrateGuestData: skip a record when the caller already has a
\* row of the same date and meal type, insert it otherwise; count the inserts.
RECURSIVE MigrateLoop(_, _, _, _, _, _)
MigrateLoop(store, userId, input, insertOks, i, count) ==
    IF i > Len(input) THEN [store |-> store, migratedCount |-> count]
    ELSE LET meal == input[i]
             existing == GetMealsByDate(store.rows, userId, meal.date)
         IN  IF \E m \in existing : m.mealType = meal.mealType
             THEN MigrateLoop(store, userId, input, insertOks, i + 1, count)
             ELSE LET r == CreateMealRecord(store, MealRow(userId, meal), insertOks[i])
                  IN  IF r.threw
                      THEN MigrateLoop(store, userId, input, insertOks, i + 1, count)
                      ELSE MigrateLoop(r.store, userId, input, insertOks, i + 1, count + 1)

\* A completed call: env is what the database answered to its INSERTs.
\* The payload is filed under the call's name, so that the payloads of
\* different procedures are never compared with each other.
Call(op, caller, input, env, ok, err, value) ==
    [op |-> op, caller |-> caller, ok |-> ok, error |-> err,
     data |-> [o \in {op} |-> [input |-> input, env |-> env, value |-> value]]]

Input(call) == call.data[call.op].input
Env(call)   == call.data[call.op].env
Value(call) == call.data[call.op].value

Digits == {"0", "1", "2", "3", "4", "5", "6", "7", "8", "9"}

\* The string a sequence of characters spells.
RECURSIVE Text(_)
Text(cs) == IF cs = <<>> THEN "" ELSE Head(cs) \o Text(Tail(cs))

\* The date strings a caller sends, character by character: the two dates
\* of the model and three strings that are no YYYY-MM-DD.
DateTexts ==
    {<<"2", "0", "2", "5", "-", "0", "1", "-", "1", "0">>,
     <<"2", "0", "2", "5", "-", "0", "1", "-", "1", "1">>,
     <<"2", "0", "2", "5", "/", "0", "1", "/", "1", "0">>,
     <<"2", "0", "2", "5", "-", "1", "-", "1", "0">>,
     <<"2", "0", "2", "5", "-", "0", "1", "-", "1", "0", "0">>}

CharsOf(str) == CHOOSE cs \in DateTexts : Text(cs) = str

\* /^\d{4}-\d{2}-\d{2}$/.test(str)
DateRegex(str) ==
    LET cs == CharsOf(str)
    IN  /\ Len(cs) = 10
        /\ \A i \in {1, 2, 3, 4, 6, 7, 9, 10} : cs[i] \in Digits
        /\ cs[5] = "-"
        /\ cs[8] = "-"

MealTypeEnum == {"lunch", "dinner"}
CategoryEnum == {"japanese", "western", "chinese", "other"}

RECURSIVE Repeat(_, _)
Repeat(str, n) ==
    IF n = 0 THEN ""
    ELSE LET half == Repeat(str, n \div 2)
         IN  half \o half \o (IF n % 2 = 1 THEN str ELSE "")

DishNameMax == 255
LongestDishName == Repeat("a", DishNameMax)
TooLongDishName == Repeat("a", DishNameMax + 1)

\* A meals.create input schema without the upper limit on dishName.
MealsCreateInputNoMax(input) ==
    /\ DateRegex(input.date)
    /\ input.mealType \in MealTypeEnum
    /\ Len(input.dishName) >= 1
    /\ input.category \in CategoryEnum

\* The meals.create input schema on the four required fields:
\* date regex, mealType enum, dishName min(1).max(255), category enum.
MealsCreateInput(input) ==
    /\ DateRegex(input.date)
    /\ input.mealType \in MealTypeEnum
    /\ Len(input.dishName) >= 1 /\ Len(input.dishName) <= DishNameMax
    /\ input.category \in CategoryEnum

\* The inputs the model sends to meals.create: every combination of the
\* model's dates, meal types, dish names and categories, and one input varied
\* in one field at a time to the limits of the schema and beyond.
BaseMealInput ==
    [date |-> "2025-01-10", mealType |-> "lunch", dishName |-> "curry",
     category |-> "japanese"]

PlainMealInputs ==
    [date : Dates, mealType : MealTypes, dishName : DishNames, category : Categories]

MealInputs ==
    PlainMealInputs
        \cup {[BaseMealInput EXCEPT !.date = Text(cs)] : cs \in DateTexts}
        \cup {[BaseMealInput EXCEPT !.mealType = t] : t \in {"breakfast"}}
        \cup {[BaseMealInput EXCEPT !.dishName = d] :
                 d \in {"", LongestDishName, TooLongDishName}}
        \cup {[BaseMealInput EXCEPT !.category = c] : c \in {"other", "korean"}}

\* meals.create: the input is parsed first; a rejected input never reaches
\* createMealRecord.
MealsCreate(u, input, insertOk) ==
    /\ handled < MaxHandled
    /\ handled' = handled + 1
    /\ IF ~MealsCreateInput(input)
       THEN /\ last' = Call("meals.create", u, <<input>>, <<>>, FALSE, "BAD_REQUEST", 0)
            /\ UNCHANGED mealVars
       ELSE LET r == CreateMealRecord(MealStore, MealRow(u, input), insertOk)
            IN  /\ mealRecords' = r.store.rows
                /\ mealAutoInc' = r.store.autoInc
                /\ last' = Call("meals.create", u, <<input>>, <<insertOk>>, ~r.threw,
                                r.error, r.id)
    /\ UNCHANGED <<db, tableVars, pendingVars, groupVars, clientVars>>

\* meals.getByDate
MealsGetByDate(u, date) ==
    /\ last' = Call("meals.getByDate", u, date, <<>>, TRUE, NULL,
                    GetMealsByDate(mealRecords, u, date))
    /\ UNCHANGED <<db, tableVars, pendingVars, mealVars, groupVars, handled, clientVars>>

\* meals.getTodayLunch
MealsGetTodayLunch(u, date) ==
    /\ \E result \in GetTodayLunch(mealRecords, u, date) :
           last' = Call("meals.getTodayLunch", u, date, <<>>, TRUE, NULL, result)
    /\ UNCHANGED <<db, tableVars, pendingVars, mealVars, groupVars, handled, clientVars>>

\* meals.delete
MealsDelete(u, id) ==
    /\ LET r == DeleteMealRecord(MealStore, id, u)
       IN  /\ mealRecords' = r.store.rows
           /\ mealAutoInc' = r.store.autoInc
           /\ last' = Call("meals.delete", u, id, <<>>, ~r.threw, r.error,
                           IF r.threw THEN <<>> ELSE <<[success |-> TRUE]>>)
    /\ UNCHANGED <<db, tableVars, pendingVars, groupVars, handled, clientVars>>

\* meals.syncLocalMeals
SyncLocalMeals(u, input, insertOks) ==
    /\ handled + Len(input) <= MaxHandled
    /\ handled' = handled + Len(input)
    /\ LET r == SyncLoop(MealStore, u, input, insertOks, 1, <<>>)
       IN  /\ mealRecords' = r.store.rows
           /\ mealAutoInc' = r.store.autoInc
           /\ last' = Call("meals.syncLocalMeals", u, input, insertOks, TRUE, NULL, r.results)
    /\ UNCHANGED <<db, tableVars, pendingVars, groupVars, clientVars>>

\* migration.migrateGuestData
MigrateGuestData(u, input, insertOks) ==
    /\ handled + Len(input) <= MaxHandled
    /\ handled' = handled + Len(input)
    /\ LET r == MigrateLoop(MealStore, u, input, insertOks, 1, 0)
       IN  /\ mealRecords' = r.store.rows
           /\ mealAutoInc' = r.store.autoInc
           /\ last' = Call("migration.migrateGuestData", u, input, insertOks, TRUE,
                           NULL, r.migratedCount)
    /\ UNCHANGED <<db, tableVars, pendingVars, groupVars, clientVars>>

----------------------------------------------------------------------------
(* Group store (server/db.ts) *)

InviteCodeLength == 8

\* const chars = "ABCDEFGHJKLMNPQRSTUVWXYZ23456789", one character per element.
chars ==
    <<"A", "B", "C", "D", "E", "F", "G", "H", "J", "K", "L", "M", "N", "P", "Q",
      "R", "S", "T", "U", "V", "W", "X", "Y", "Z", "2", "3", "4", "5", "6", "7",
      "8", "9">>

\* String.prototype.charAt on a string kept as a sequence of characters: the
\* character at a 0-based index, the empty string outside the string.
charAt(str, index) ==
    IF index \in 0..(Len(str) - 1) THEN <<str[index + 1]>> ELSE <<>>

\* What Math.floor(Math.random() * chars.length) yields over the eight
\* iterations of one generateInviteCode call: eight indices in 0..31.
RandomDraws ==
    {[i \in 1..InviteCodeLength |-> (start + i) % Len(chars)] : start \in {0, 3, 23}}

\* for (let i = from; i < 8; i++) code += chars.charAt(draws[i])
RECURSIVE InviteCodeLoop(_, _, _)
InviteCodeLoop(code, i, draws) ==
    IF i < InviteCodeLength
    THEN InviteCodeLoop(code \o charAt(chars, draws[i + 1]), i + 1, draws)
    ELSE code

\* A generateInviteCode whose loop starts at 1: seven characters.
generateInviteCodeOffByOne(draws) == InviteCodeLoop(<<>>, 1, draws)

generateInviteCode(draws) == InviteCodeLoop(<<>>, 0, draws)

\* Every code generateInviteCode can return on the bounded draws, and one
\* well-formed code no group has.
InviteCodes ==
    {generateInviteCode(d) : d \in RandomDraws}
        \cup {<<"Z", "Z", "Z", "Z", "Z", "Z", "Z", "Z">>}

GroupStore ==
    [groups |-> groups, groupAutoInc |-> groupAutoInc,
     members |-> groupMembers, memberAutoInc |-> memberAutoInc]

GroupThrown(store, msg) == [threw |-> TRUE, error |-> msg, store |-> store, id |-> 0]

GroupDone(store, id) == [threw |-> FALSE, error |-> NULL, store |-> store, id |-> id]

\* INSERT INTO group_members
InsertMember(store, groupId, userId, role) ==
    [store EXCEPT
        !.members = @ \cup {[id |-> store.memberAutoInc, groupId |-> groupId,
                             userId |-> userId, role |-> role]},
        !.memberAutoInc = @ + 1]

\* A createGroup that adds its creator with the column default role.
CreateGroupOwnerAsMember(store, name, description, ownerId, draws) ==
    IF ~db THEN GroupThrown(store, "Error: Database not available")
    ELSE LET inviteCode == generateInviteCode(draws)
             groupId    == store.groupAutoInc
         IN  IF \E g \in store.groups : g.inviteCode = inviteCode
             THEN GroupThrown(store, "Error: Duplicate entry for key groups_inviteCode_unique")
             ELSE GroupDone(
                      InsertMember(
                          [store EXCEPT
                              !.groups = @ \cup {[id |-> groupId, name |-> name,
                                                  description |-> description,
                                                  inviteCode |-> inviteCode,
                                                  ownerId |-> ownerId]},
                              !.groupAutoInc = @ + 1],
                          groupId, ownerId, "member"),
                      groupId)

\* createGroup: generate the code, insert the group row (the unique index on
\* inviteCode rejects a code another group has), insert the owner's row.
CreateGroup(store, name, description, ownerId, draws) ==
    IF ~db THEN GroupThrown(store, "Error: Database not available")
    ELSE LET inviteCode == generateInviteCode(draws)
             groupId    == store.groupAutoInc
         IN  IF \E g \in store.groups : g.inviteCode = inviteCode
             THEN GroupThrown(store, "Error: Duplicate entry for key groups_inviteCode_unique")
             ELSE GroupDone(
                      InsertMember(
                          [store EXCEPT
                              !.groups = @ \cup {[id |-> groupId, name |-> name,
                                                  description |-> description,
                                                  inviteCode |-> inviteCode,
                                                  ownerId |-> ownerId]},
                              !.groupAutoInc = @ + 1],
                          groupId, ownerId, "owner"),
                      groupId)

\* getGroupById / getGroupByInviteCode: <<row>> or <<>> (null).
GetGroupById(store, id) ==
    IF ~db \/ ~\E g \in store.groups : g.id = id THEN <<>>
    ELSE <<CHOOSE g \in store.groups : g.id = id>>

GetGroupByInviteCode(store, inviteCode) ==
    IF ~db \/ ~\E g \in store.groups : g.inviteCode = inviteCode THEN <<>>
    ELSE <<CHOOSE g \in store.groups : g.inviteCode = inviteCode>>

\* A joinGroup without the existence check.
JoinGroupUnchecked(store, groupId, userId) ==
    IF ~db THEN GroupThrown(store, "Error: Database not available")
    ELSE GroupDone(InsertMember(store, groupId, userId, "member"), 0)

\* A joinGroup whose existence check looks at rows of role "member" only.
JoinGroupChecksMemberRole(store, groupId, userId) ==
    IF ~db THEN GroupThrown(store, "Error: Database not available")
    ELSE LET existing == {m \in store.members :
                              /\ m.groupId = groupId
                              /\ m.userId = userId
                              /\ m.role = "member"}
         IN  IF existing # {}
             THEN GroupThrown(store, "Error: Already a member of this group")
             ELSE GroupDone(InsertMember(store, groupId, userId, "member"), 0)

\* joinGroup
JoinGroup(store, groupId, userId) ==
    IF ~db THEN GroupThrown(store, "Error: Database not available")
    ELSE LET existing == {m \in store.members : m.groupId = groupId /\ m.userId = userId}
         IN  IF existing # {}
             THEN GroupThrown(store, "Error: Already a member of this group")
             ELSE GroupDone(InsertMember(store, groupId, userId, "member"), 0)

\* A leaveGroup whose DELETE filters on the group alone.
LeaveGroupWholeGroup(store, groupId, userId) ==
    IF ~db THEN GroupThrown(store, "Error: Database not available")
    ELSE GroupDone(
             [store EXCEPT !.members = {m \in @ : ~(m.groupId = groupId)}], 0)

\* leaveGroup
LeaveGroup(store, groupId, userId) ==
    IF ~db THEN GroupThrown(store, "Error: Database not available")
    ELSE GroupDone(
             [store EXCEPT
                 !.members = {m \in @ : ~(m.groupId = groupId /\ m.userId = userId)}],
             0)

\* A deleteGroup that only checks that the group exists.
DeleteGroupAnyCaller(store, groupId, ownerId) ==
    IF ~db THEN GroupThrown(store, "Error: Database not available")
    ELSE LET group == GetGroupById(store, groupId)
         IN  IF group = <<>>
             THEN GroupThrown(store, "Error: Not authorized to delete this group")
             ELSE GroupDone(
                      [store EXCEPT
                          !.members = {m \in @ : m.groupId # groupId},
                          !.groups  = {g \in @ : g.id # groupId}],
                      0)

\* deleteGroup
DeleteGroup(store, groupId, ownerId) ==
    IF ~db THEN GroupThrown(store, "Error: Database not available")
    ELSE LET group == GetGroupById(store, groupId)
         IN  IF group = <<>> \/ group[1].ownerId # ownerId
             THEN GroupThrown(store, "Error: Not authorized to delete this group")
             ELSE GroupDone(
                      [store EXCEPT
                          !.members = {m \in @ : m.groupId # groupId},
                          !.groups  = {g \in @ : g.id # groupId}],
                      0)

SetGroupStore(store) ==
    /\ groups' = store.groups
    /\ groupAutoInc' = store.groupAutoInc
    /\ groupMembers' = store.members
    /\ memberAutoInc' = store.memberAutoInc

\* groups.create
GroupsCreate(u, name, draws) ==
    /\ groupAutoInc <= MaxGroups
    /\ memberAutoInc <= MaxMemberRows
    /\ LET r == CreateGroup(GroupStore, name, NULL, u, draws)
       IN  /\ SetGroupStore(r.store)
           /\ last' = Call("groups.create", u, <<name>>, draws, ~r.threw, r.error,
                           IF r.threw THEN <<>> ELSE GetGroupById(r.store, r.id))
    /\ UNCHANGED <<db, tableVars, pendingVars, mealVars, handled, clientVars>>

\* groups.join
GroupsJoin(u, inviteCode) ==
    /\ memberAutoInc <= MaxMemberRows
    /\ LET group == GetGroupByInviteCode(GroupStore, inviteCode)
       IN  IF group = <<>>
           THEN /\ last' = Call("groups.join", u, inviteCode, <<>>, FALSE,
                                "Error: Invalid invite code", <<>>)
                /\ UNCHANGED groupVars
           ELSE LET r == JoinGroup(GroupStore, group[1].id, u)
                IN  /\ SetGroupStore(r.store)
                    /\ last' = Call("groups.join", u, inviteCode, <<>>, ~r.threw,
                                    r.error, IF r.threw THEN <<>> ELSE group)
    /\ UNCHANGED <<db, tableVars, pendingVars, mealVars, handled, clientVars>>

\* groups.leave
GroupsLeave(u, groupId) ==
    /\ LET r == LeaveGroup(GroupStore, groupId, u)
       IN  /\ SetGroupStore(r.store)
           /\ last' = Call("groups.leave", u, groupId, <<>>, ~r.threw, r.error,
                           IF r.threw THEN <<>> ELSE <<[success |-> TRUE]>>)
    /\ UNCHANGED <<db, tableVars, pendingVars, mealVars, handled, clientVars>>

\* groups.delete
GroupsDelete(u, groupId) ==
    /\ LET r == DeleteGroup(GroupStore, groupId, u)
       IN  /\ SetGroupStore(r.store)
           /\ last' = Call("groups.delete", u, groupId, <<>>, ~r.threw, r.error,
                           IF r.threw THEN <<>> ELSE <<[success |-> TRUE]>>)
    /\ UNCHANGED <<db, tableVars, pendingVars, mealVars, handled, clientVars>>

----------------------------------------------------------------------------
(* Group aggregation (server/db.ts getGroupMealsForDate, groups.getMealsForDate) *)

\* Table users: the columns getGroupMealsForDate selects.  User 2 has set no
\* display name.
users == {[id |-> 1, name |-> "Hana"], [id |-> 2, name |-> ""]}

\* usersResult.find(u => u.id === meal.userId)?.name || null
UserNameOf(usersResult, userId) ==
    IF \E u \in usersResult : u.id = userId
    THEN LET name == (CHOOSE u \in usersResult : u.id = userId).name
         IN  IF name = "" \/ name = NULL THEN NULL ELSE name
    ELSE NULL

\* A getGroupMealsForDate that selects the meals of the date without the
\* inArray(userId, userIds) condition.
GetGroupMealsForDateAllUsers(store, rows, groupId, date) ==
    IF ~db THEN {}
    ELSE LET members == {m \in store.members : m.groupId = groupId}
             userIds == {m.userId : m \in members}
         IN  IF Cardinality(userIds) = 0 THEN {}
             ELSE LET mealsOfDate == {r \in rows : r.date = date}
                      usersResult == {u \in users : u.id \in userIds}
                  IN  {[userName |-> UserNameOf(usersResult, meal.userId)] @@ meal :
                          meal \in mealsOfDate}

\* getGroupMealsForDate: the group's members, then the meals of those users
\* on the date, each with the user's name.  The rows come back in no
\* particular order: the result is kept as a set.
GetGroupMealsForDate(store, rows, groupId, date) ==
    IF ~db THEN {}
    ELSE LET members == {m \in store.members : m.groupId = groupId}
             userIds == {m.userId : m \in members}
         IN  IF Cardinality(userIds) = 0 THEN {}
             ELSE LET mealsOfDate == {r \in rows : r.userId \in userIds /\ r.date = date}
                      usersResult == {u \in users : u.id \in userIds}
                  IN  {[userName |-> UserNameOf(usersResult, meal.userId)] @@ meal :
                          meal \in mealsOfDate}

\* groups.getMealsForDate: the query hands input.groupId and input.date to
\* getGroupMealsForDate; ctx is not read.
GroupsGetMealsForDate(u, groupId, date) ==
    /\ last' = Call("groups.getMealsForDate", u, [groupId |-> groupId, date |-> date],
                    <<>>, TRUE, NULL,
                    GetGroupMealsForDate(GroupStore, mealRecords, groupId, date))
    /\ UNCHANGED <<db, tableVars, pendingVars, mealVars, groupVars, handled, clientVars>>

----------------------------------------------------------------------------
(* Dinner recommendations (recommendations router) *)

\* The literal both handlers return when the completion call has failed
\* (the Japanese texts are written here in Latin letters).
FallbackRecommendations ==
    <<[name |-> "yakizakana teishoku", category |-> "japanese",
       reason |-> "balance no yoi washoku de healthy desu"],
      [name |-> "yasai tappuri soup", category |-> "western",
       reason |-> "yasai wo shikkari toremasu"],
      [name |-> "tofu hamburg", category |-> "japanese",
       reason |-> "tanpakushitsu wo hokyu dekimasu"]>>

\* Texts the completion service can answer with.
JsonThree ==
    "{\"recommendations\":[{\"name\":\"a\",\"category\":\"other\",\"reason\":\"x\"},{\"name\":\"b\",\"category\":\"western\",\"reason\":\"y\"},{\"name\":\"c\",\"category\":\"chinese\",\"reason\":\"z\"}]}"
JsonOne == "{\"recommendations\":[{\"name\":\"a\",\"category\":\"other\",\"reason\":\"x\"}]}"
JsonNone == "{\"recommendations\":[]}"
JsonNoKey == "{}"
JsonNull == "null"
JsonCut == "{\"recommendations\":[{\"name\":\"a\""
JsonAdvice == "{\"analysis\":\"ok\",\"recommendations\":[\"r\"],\"nutritionScore\":80}"
JsonAdviceHigh == "{\"analysis\":\"ok\",\"recommendations\":[\"r\"],\"nutritionScore\":150}"

ItemA == [name |-> "a", category |-> "other", reason |-> "x"]
ItemB == [name |-> "b", category |-> "western", reason |-> "y"]
ItemC == [name |-> "c", category |-> "chinese", reason |-> "z"]

\* A parsed JSON object: each key is <<value>> when the object has it and
\* <<>> when reading it gives undefined.
Parsed(recommendations, analysis, nutritionScore) ==
    [threw |-> FALSE, isNull |-> FALSE, recommendations |-> recommendations,
     analysis |-> analysis, nutritionScore |-> nutritionScore]

\* JSON.parse on the texts above: the object, null, or a SyntaxError.
JSONParse(text) ==
    CASE text = JsonThree -> Parsed(<<(<<ItemA, ItemB, ItemC>>)>>, <<>>, <<>>)
      [] text = JsonOne -> Parsed(<<(<<ItemA>>)>>, <<>>, <<>>)
      [] text = JsonNone -> Parsed(<<(<<>>)>>, <<>>, <<>>)
      [] text = JsonNoKey -> Parsed(<<>>, <<>>, <<>>)
      [] text = JsonAdvice -> Parsed(<<(<<"r">>)>>, <<"ok">>, <<80>>)
      [] text = JsonAdviceHigh -> Parsed(<<(<<"r">>)>>, <<"ok">>, <<150>>)
      [] text = JsonNull -> [Parsed(<<>>, <<>>, <<>>) EXCEPT !.isNull = TRUE]
      [] OTHER -> [Parsed(<<>>, <<>>, <<>>) EXCEPT !.threw = TRUE]

\* response.choices[0]?.message?.content: undefined, a string, or an array
\* of content parts.
LLMContents ==
    {[type |-> "undefined", text |-> ""], [type |-> "array", text |-> ""]}
        \cup {[type |-> "string", text |-> t] :
                 t \in {"", JsonCut, JsonNull, JsonNoKey, JsonNone, JsonOne, JsonThree}}

\* What one invokeLLM call does: it rejects, or it resolves with a content.
LLMResponses ==
    {[threw |-> TRUE, content |-> [type |-> "undefined", text |-> ""]]}
        \cup {[threw |-> FALSE, content |-> c] : c \in LLMContents}

\* The try block from the awaited invokeLLM on: failed when anything in it
\* throws, otherwise parsed.recommendations.
CompletionTry(response) ==
    IF response.threw THEN [failed |-> TRUE, recommendations |-> <<>>]
    ELSE LET content == response.content
         IN  IF content.type # "string" \/ content.text = ""
             THEN [failed |-> TRUE, recommendations |-> <<>>]
             ELSE LET parsed == JSONParse(content.text)
                  IN  IF parsed.threw \/ parsed.isNull
                      THEN [failed |-> TRUE, recommendations |-> <<>>]
                      ELSE [failed |-> FALSE, recommendations |-> parsed.recommendations]

\* A getDinnerRecommendations whose catch rethrows.
GetDinnerRecommendationsRethrows(response) ==
    LET t == CompletionTry(response)
    IN  IF t.failed
        THEN [threw |-> TRUE, value |-> <<>>]
        ELSE [threw |-> FALSE, value |-> t.recommendations]

\* recommendations.getDinnerRecommendations: parsed.recommendations, or the
\* fallback from the catch block.  value is <<list>>, or <<>> for undefined.
GetDinnerRecommendations(response) ==
    LET t == CompletionTry(response)
    IN  IF t.failed
        THEN [threw |-> FALSE, value |-> <<FallbackRecommendations>>]
        ELSE [threw |-> FALSE, value |-> t.recommendations]

\* lunches.map(l => ({name: l.userName, dish: l.dishName, category:
\* l.category})), kept as a function of the row id.
MemberLunches(lunches) ==
    [id \in {l.id : l \in lunches} |->
        LET l == CHOOSE x \in lunches : x.id = id
        IN  [name |-> l.userName, dish |-> l.dishName, category |-> l.category]]

\* A getGroupDinnerRecommendations without the early return on no lunches.
GetGroupDinnerRecommendationsAlwaysAsks(store, rows, groupId, date, response) ==
    LET mealsOfGroup == GetGroupMealsForDate(store, rows, groupId, date)
        lunches == {m \in mealsOfGroup : m.mealType = "lunch"}
        t == CompletionTry(response)
    IN  [invoked |-> TRUE,
         value |-> [recommendations |-> IF t.failed THEN <<FallbackRecommendations>>
                                        ELSE t.recommendations,
                    memberLunches |-> MemberLunches(lunches)]]

\* recommendations.getGroupDinnerRecommendations
GetGroupDinnerRecommendations(store, rows, groupId, date, response) ==
    LET mealsOfGroup == GetGroupMealsForDate(store, rows, groupId, date)
        lunches == {m \in mealsOfGroup : m.mealType = "lunch"}
    IN  IF Cardinality(lunches) = 0
        THEN [invoked |-> FALSE,
              value |-> [recommendations |-> <<FallbackRecommendations>>,
                         memberLunches |-> <<>>]]
        ELSE LET t == CompletionTry(response)
             IN  [invoked |-> TRUE,
                  value |-> [recommendations |-> IF t.failed
                                                 THEN <<FallbackRecommendations>>
                                                 ELSE t.recommendations,
                             memberLunches |-> MemberLunches(lunches)]]

\* recommendations.getDinnerRecommendations as one call
RecommendationsGetDinner(u, lunchDishName, lunchCategory, response) ==
    /\ LET r == GetDinnerRecommendations(response)
       IN  last' = Call("recommendations.getDinnerRecommendations", u,
                        [lunchDishName |-> lunchDishName, lunchCategory |-> lunchCategory],
                        <<response>>, ~r.threw, NULL, r.value)
    /\ UNCHANGED <<db, tableVars, pendingVars, mealVars, groupVars, handled, clientVars>>

\* recommendations.getGroupDinnerRecommendations as one call; env holds the
\* response of the completion service when the handler asked for one.
RecommendationsGetGroupDinner(u, groupId, date, response) ==
    /\ LET r == GetGroupDinnerRecommendations(GroupStore, mealRecords, groupId, date,
                                              response)
       IN  last' = Call("recommendations.getGroupDinnerRecommendations", u,
                        [groupId |-> groupId, date |-> date],
                        IF r.invoked THEN <<response>> ELSE <<>>, TRUE, NULL, r.value)
    /\ UNCHANGED <<db, tableVars, pendingVars, mealVars, groupVars, handled, clientVars>>

----------------------------------------------------------------------------
(* Dates as the reports router computes them (JavaScript Date) *)

\* The calendar of the model: 2024-12-01 (day 0) to 2025-12-31.
IsLeapYear(y) == (y % 4 = 0 /\ y % 100 # 0) \/ y % 400 = 0

DaysInMonth(y, m) ==
    IF m = 2 THEN (IF IsLeapYear(y) THEN 29 ELSE 28)
    ELSE IF m \in {4, 6, 9, 11} THEN 30 ELSE 31

RECURSIVE DaysBeforeMonth(_, _)
DaysBeforeMonth(y, m) ==
    IF m = 1 THEN 0 ELSE DaysBeforeMonth(y, m - 1) + DaysInMonth(y, m - 1)

\* Days from 2024-12-01 to the civil date.
DayNumber(y, m, d) ==
    IF y = 2024 THEN d - 1 ELSE 31 + DaysBeforeMonth(y, m) + d - 1

CivilDates ==
    {c \in [y : {2024, 2025}, m : 1..12, d : 1..31] :
        /\ c.d <= DaysInMonth(c.y, c.m)
        /\ c.y = 2024 => c.m = 12}

CalendarDays == 0..(Cardinality(CivilDates) - 1)

Civil == [n \in CalendarDays |-> CHOOSE c \in CivilDates : DayNumber(c.y, c.m, c.d) = n]

Pad2(n) == IF n < 10 THEN "0" \o ToString(n) ELSE ToString(n)

\* date.toISOString().split('T')[0] of an instant of calendar day n.
DateString == [n \in CalendarDays |->
                  ToString(Civil[n].y) \o "-" \o Pad2(Civil[n].m) \o "-" \o Pad2(Civil[n].d)]

\* The calendar day a YYYY-MM-DD string names.
DayOfDate == [str \in {DateString[n] : n \in CalendarDays} |->
                 CHOOSE n \in CalendarDays : DateString[n] = str]

MinutesPerDay == 1440

\* The time zone of the server process: minutes east of UTC, and for a zone
\* with summer time the instants (minutes from 2024-12-01T00:00Z) between
\* which the summer offset applies in 2025.
TimeZones ==
    {[name |-> "UTC", std |-> 0, dst |-> 0, from |-> 0, until |-> 0],
     [name |-> "Asia/Tokyo", std |-> 540, dst |-> 540, from |-> 0, until |-> 0],
     [name |-> "Europe/Berlin", std |-> 60, dst |-> 120,
      from  |-> DayNumber(2025, 3, 30) * MinutesPerDay + 60,
      until |-> DayNumber(2025, 10, 26) * MinutesPerDay + 60]}

OffsetAt(tz, t) == IF t >= tz.from /\ t < tz.until THEN tz.dst ELSE tz.std

\* Local wall-clock minutes to the instant: the offset in force; for a wall
\* time the zone skips or repeats, the offset before the transition.
LocalToUTC(tz, wall) ==
    IF OffsetAt(tz, wall - tz.dst) = tz.dst THEN wall - tz.dst
    ELSE wall - tz.std

\* An AddDays that stays in UTC (setUTCDate).
AddDaysUTC(tz, str, i) == DateString[DayOfDate[str] + i]

\* const date = new Date(str); date.setDate(date.getDate() + i);
\* date.toISOString().split('T')[0]
\* new Date("YYYY-MM-DD") is midnight UTC; getDate and setDate work on the
\* local date of the server's zone; toISOString is UTC again.
AddDays(tz, str, i) ==
    LET t     == DayOfDate[str] * MinutesPerDay
        local == t + OffsetAt(tz, t)
        wall  == ((local \div MinutesPerDay) + i) * MinutesPerDay + (local % MinutesPerDay)
    IN  DateString[LocalToUTC(tz, wall) \div MinutesPerDay]

----------------------------------------------------------------------------
(* Weekly report and nutrition advice (reports router) *)

\* getMealsByDateRange: the caller's rows with startDate <= date <= endDate.
\* The column holds YYYY-MM-DD strings, which the database compares as text;
\* for such strings that is the order of the days.
GetMealsByDateRange(rows, userId, startDate, endDate) ==
    IF ~db THEN {}
    ELSE {r \in rows : /\ r.userId = userId
                       /\ DayOfDate[r.date] >= DayOfDate[startDate]
                       /\ DayOfDate[r.date] <= DayOfDate[endDate]}

\* Math.round(n / d * 100) for n, d >= 0
MathRoundPercent(n, d) == (2 * 100 * n + d) \div (2 * d)

\* A weekly report that counts a day as completed when it has any record.
GetWeeklyReportEitherMeal(rows, userId, weekStartDate, tz) ==
    LET endDateStr == AddDays(tz, weekStartDate, 6)
        meals_     == GetMealsByDateRange(rows, userId, weekStartDate, endDateStr)
        days       == {AddDays(tz, weekStartDate, i) : i \in 0..6}
        dailyMeals ==
            [k \in days |->
                [lunch  |-> \E m \in meals_ : m.date = k /\ m.mealType = "lunch",
                 dinner |-> \E m \in meals_ : m.date = k /\ m.mealType = "dinner"]]
        completedDays ==
            Cardinality({k \in days : dailyMeals[k].lunch \/ dailyMeals[k].dinner})
    IN  [weekStartDate  |-> weekStartDate,
         weekEndDate    |-> endDateStr,
         totalMeals     |-> Cardinality(meals_),
         lunches        |-> Cardinality({m \in meals_ : m.mealType = "lunch"}),
         dinners        |-> Cardinality({m \in meals_ : m.mealType = "dinner"}),
         dailyMeals     |-> dailyMeals,
         completionRate |-> MathRoundPercent(completedDays, 7)]

\* reports.getWeeklyReport, on a server in time zone tz.
GetWeeklyReport(rows, userId, weekStartDate, tz) ==
    LET endDateStr == AddDays(tz, weekStartDate, 6)
        meals_     == GetMealsByDateRange(rows, userId, weekStartDate, endDateStr)
        days       == {AddDays(tz, weekStartDate, i) : i \in 0..6}
        dailyMeals ==
            [k \in days |->
                [lunch  |-> \E m \in meals_ : m.date = k /\ m.mealType = "lunch",
                 dinner |-> \E m \in meals_ : m.date = k /\ m.mealType = "dinner"]]
        completedDays ==
            Cardinality({k \in days : dailyMeals[k].lunch /\ dailyMeals[k].dinner})
    IN  [weekStartDate  |-> weekStartDate,
         weekEndDate    |-> endDateStr,
         totalMeals     |-> Cardinality(meals_),
         lunches        |-> Cardinality({m \in meals_ : m.mealType = "lunch"}),
         dinners        |-> Cardinality({m \in meals_ : m.mealType = "dinner"}),
         dailyMeals     |-> dailyMeals,
         completionRate |-> MathRoundPercent(completedDays, 7)]

\* The response of getNutritionAdvice when the week has no record.
NoDataAdvice == [advice |-> "no meal records this week", recommendations |-> <<>>]

\* The response of getNutritionAdvice when the completion call has failed.
FallbackAdvice ==
    [analysis |-> "advice could not be generated",
     recommendations |-> <<"eat vegetables", "balance protein", "keep meal times">>,
     nutritionScore |-> 50]

\* What the completion service can answer to the nutrition prompt.
AdviceResponses ==
    {[threw |-> TRUE, content |-> [type |-> "undefined", text |-> ""]]}
        \cup {[threw |-> FALSE, content |-> [type |-> "string", text |-> t]] :
                 t \in {JsonCut, JsonNoKey, JsonAdvice, JsonAdviceHigh}}

\* The try block of getNutritionAdvice and its catch.
AdviceTry(response) ==
    IF response.threw THEN FallbackAdvice
    ELSE LET content == response.content
         IN  IF content.type # "string" \/ content.text = "" THEN FallbackAdvice
             ELSE LET parsed == JSONParse(content.text)
                  IN  IF parsed.threw \/ parsed.isNull THEN FallbackAdvice
                      ELSE [analysis |->
                                IF parsed.analysis = <<>> \/ parsed.analysis = <<"">>
                                THEN "could not analyse" ELSE parsed.analysis[1],
                            recommendations |->
                                IF parsed.recommendations = <<>> THEN <<>>
                                ELSE parsed.recommendations[1],
                            nutritionScore |->
                                IF parsed.nutritionScore = <<>> \/ parsed.nutritionScore = <<0>>
                                THEN 50 ELSE parsed.nutritionScore[1]]

\* A getNutritionAdvice without the early return on an empty week.
GetNutritionAdviceAlwaysAsks(rows, userId, weekStartDate, tz, response) ==
    [invoked |-> TRUE, value |-> AdviceTry(response)]

\* reports.getNutritionAdvice, on a server in time zone tz.
GetNutritionAdvice(rows, userId, weekStartDate, tz, response) ==
    LET endDateStr == AddDays(tz, weekStartDate, 6)
        meals_     == GetMealsByDateRange(rows, userId, weekStartDate, endDateStr)
    IN  IF Cardinality(meals_) = 0
        THEN [invoked |-> FALSE, value |-> NoDataAdvice]
        ELSE [invoked |-> TRUE, value |-> AdviceTry(response)]

\* reports.getWeeklyReport as one call; env holds the server's time zone.
ReportsGetWeeklyReport(u, weekStartDate, tz) ==
    /\ last' = Call("reports.getWeeklyReport", u, weekStartDate, tz.name, TRUE, NULL,
                    GetWeeklyReport(mealRecords, u, weekStartDate, tz))
    /\ UNCHANGED <<db, tableVars, pendingVars, mealVars, groupVars, handled, clientVars>>

\* reports.getNutritionAdvice as one call; env holds the server's time zone
\* and the response of the completion service when the handler asked for one.
ReportsGetNutritionAdvice(u, weekStartDate, tz, response) ==
    /\ LET r == GetNutritionAdvice(mealRecords, u, weekStartDate, tz, response)
       IN  last' = Call("reports.getNutritionAdvice", u, weekStartDate,
                        [tz |-> tz.name,
                         llm |-> IF r.invoked THEN <<response>> ELSE <<>>],
                        TRUE, NULL, r.value)
    /\ UNCHANGED <<db, tableVars, pendingVars, mealVars, groupVars, handled, clientVars>>

----------------------------------------------------------------------------
(* Guest local cache (hooks/use-local-meals.ts) and login (hooks/use-auth.ts) *)

NoUser == 0

\* The hook instances: the one useAuth creates and the record screen's.
Instances == {"useAuth", "RecordScreen"}

\* What useLocalMeals() returns; useAuth destructures `meals` and `clearMeals`.
UseLocalMealsKeys ==
    {"meals", "loading", "addMeal", "getMealsByDate", "getTodayLunch",
     "getTodayDinner", "getRecentMeals", "getMealsByDateRange", "deleteMeal",
     "refresh"}

clearMeals == IF "clearMeals" \in UseLocalMealsKeys THEN "function" ELSE "undefined"

\* A LocalMealRecord made by addMeal when the clock reads `now`.
NewLocalMeal(meal, now) ==
    [id |-> now, date |-> meal.date, mealType |-> meal.mealType,
     dishName |-> meal.dishName, category |-> meal.category, createdAt |-> now]

\* The syncLocalMeals input schema applied to a cached record: id is stripped.
ParseSyncInput(records) ==
    [i \in 1..Len(records) |->
        [date |-> records[i].date, mealType |-> records[i].mealType,
         dishName |-> records[i].dishName, category |-> records[i].category,
         createdAt |-> records[i].createdAt]]

\* loadMeals: read the stored list into the instance's state.
LoadMeals(inst) ==
    /\ meals' = IF storage # <<>> THEN [meals EXCEPT ![inst] = storage] ELSE meals
    /\ last' = Call("loadMeals", NoUser, inst, <<>>, TRUE, NULL, <<>>)
    /\ UNCHANGED <<db, tableVars, pendingVars, mealVars, groupVars, handled, platform, authVars, storage,
                   localMeals>>

\* addMeal, then saveMeals: prepend to the instance's list, store it, set state.
AddMeal(inst, meal, now) ==
    /\ Len(meals[inst]) < MaxLocal
    /\ LET newMeals == <<NewLocalMeal(meal, now)>> \o meals[inst]
       IN  /\ storage' = newMeals
           /\ meals' = [meals EXCEPT ![inst] = newMeals]
    /\ last' = Call("addMeal", NoUser, inst, <<>>, TRUE, NULL, <<>>)
    /\ UNCHANGED <<db, tableVars, pendingVars, mealVars, groupVars, handled, platform, authVars, localMeals>>

\* The guest cache, await by await.  `saving` holds the saveMeals calls
\* whose AsyncStorage.setItem has not settled, oldest first, each with the
\* list its caller computed from the `meals` of the render it was made in.

\* addMeal is called: newMeals = [newMeal, ...meals], then saveMeals(newMeals)
\* awaits setItem.
AddMealCall(inst, meal, now) ==
    /\ Len(meals[inst]) < MaxLocal
    /\ Len(saving) < MaxPending
    /\ saving' = Append(saving, [op |-> "addMeal", inst |-> inst, id |-> now,
                                 newMeals |-> <<NewLocalMeal(meal, now)>> \o meals[inst]])
    /\ UNCHANGED <<db, tableVars, inflight, fetching, mealVars, groupVars, handled, clientVars,
                   last>>

\* deleteMeal is called: newMeals = meals.filter(m => m.id !== id), then
\* saveMeals(newMeals) awaits setItem.
DeleteMealCall(inst, id) ==
    /\ Len(saving) < MaxPending
    /\ saving' = Append(saving, [op |-> "deleteMeal", inst |-> inst, id |-> id,
                                 newMeals |-> SelectSeq(meals[inst],
                                                        LAMBDA m : m.id # id)])
    /\ UNCHANGED <<db, tableVars, inflight, fetching, mealVars, groupVars, handled, clientVars,
                   last>>

\* The oldest setItem settles.  Resolved: the stored list is the caller's
\* newMeals, and setMeals(newMeals) follows.  Rejected: logged, nothing set.
SaveMealsSettles(setItemOk) ==
    /\ saving # <<>>
    /\ LET call == Head(saving)
       IN  /\ storage' = IF setItemOk THEN call.newMeals ELSE storage
           /\ meals' = IF setItemOk
                       THEN [meals EXCEPT ![call.inst] = call.newMeals]
                       ELSE meals
           /\ last' = Call(call.op, NoUser, call.inst, <<setItemOk>>, TRUE, NULL, <<>>)
    /\ saving' = Tail(saving)
    /\ UNCHANGED <<db, tableVars, inflight, fetching, mealVars, groupVars, handled, platform,
                   authVars, localMeals>>

\* The web retry loop: up to 3 getMe attempts, stopping at the first that
\* does not throw.  outcomes[k] is what attempt k does.
RECURSIVE GetMeWithRetry(_, _, _, _, _)
GetMeWithRetry(outcomes, who, attempt, retries, lastError) ==
    IF retries > 0
    THEN IF outcomes[attempt] = "throw"
         THEN GetMeWithRetry(outcomes, who, attempt + 1, retries - 1, "Error: getMe failed")
         ELSE [apiUser |-> IF outcomes[attempt] = "user" THEN who ELSE NoUser,
               lastError |-> lastError, attempts |-> attempt]
    ELSE [apiUser |-> NoUser, lastError |-> lastError, attempts |-> attempt - 1]

\* The sync step of fetchUser, run once a user is established, on the
\* localMeals and clearMeals the closure holds: call syncLocalMeals when the
\* list is non-empty, then clearMeals(); whatever throws is caught and logged.
LoginSync(who, records, insertOks, netOk) ==
    IF Len(records) > 0
    THEN IF netOk
         THEN LET r == SyncLoop(MealStore, who, ParseSyncInput(records), insertOks, 1, <<>>)
              IN  [store   |-> r.store,
                   calls   |-> Append(syncCalls, [user |-> who, records |-> records]),
                   storage |-> IF clearMeals = "function" THEN <<>> ELSE storage]
         ELSE [store   |-> MealStore,
               calls   |-> Append(syncCalls, [user |-> who, records |-> records]),
               storage |-> storage]
    ELSE [store |-> MealStore, calls |-> syncCalls, storage |-> storage]

\* No fetchUser call is under way.
NotFetching == [pc |-> "idle"]

\* fetchUser on the user it has established (established = NoUser: none).
FetchUserFinish(established, lastError, insertOks, netOk) ==
    LET s == IF established # NoUser
             THEN LoginSync(established, localMeals, insertOks, netOk)
             ELSE [store |-> MealStore, calls |-> syncCalls, storage |-> storage]
    IN  /\ user' = established
        /\ error' = IF established = NoUser THEN lastError ELSE NULL
        /\ loading' = FALSE
        /\ mealRecords' = s.store.rows
        /\ mealAutoInc' = s.store.autoInc
        /\ syncCalls' = s.calls
        /\ storage' = s.storage
        /\ fetching' = NotFetching
        /\ last' = Call("fetchUser", established, <<>>, <<>>, TRUE, NULL, <<>>)
        /\ UNCHANGED <<db, tableVars, inflight, saving, groupVars, handled, platform, meals,
                       localMeals>>

\* fetchUser on the web, await by await.  `fetching` holds the locals of the
\* call under way: apiUser, retries, lastError, and the number of getMe calls
\* made (attempts) with the errors they threw (thrown).
GetMeErrors == {"Error: Network request failed", "Error: API call failed: 500"}

\* What one Api.getMe() call does: resolve with a user, resolve with null, or
\* reject with an error.
GetMeOutcomes == {"user", "null"} \cup GetMeErrors

\* fetchUser is called: setLoading(true), setError(null), retries = 3, and
\* the first getMe is awaited.
FetchUserCalled ==
    /\ platform = "web"
    /\ fetching = NotFetching
    /\ fetching' = [pc |-> "getMe", apiUser |-> NoUser, retries |-> 3,
                    lastError |-> NULL, attempts |-> 1, thrown |-> <<>>]
    /\ loading' = TRUE
    /\ error' = NULL
    /\ UNCHANGED <<db, tableVars, inflight, saving, mealVars, groupVars, handled, platform,
                   user, syncCalls, cacheVars, last>>

\* The loop of a client that tries once more than the count allows.
GetMeSettlesOneMoreTry(who, outcome) ==
    /\ fetching.pc = "getMe"
    /\ fetching' =
           IF outcome \in GetMeErrors
           THEN [fetching EXCEPT !.lastError = outcome,
                                 !.retries = fetching.retries - 1,
                                 !.thrown = Append(fetching.thrown, outcome),
                                 !.pc = IF fetching.retries - 1 >= 0
                                        THEN "backoff" ELSE "finish"]
           ELSE [fetching EXCEPT !.apiUser = IF outcome = "user" THEN who ELSE NoUser,
                                 !.pc = "finish"]
    /\ UNCHANGED <<db, tableVars, inflight, saving, mealVars, groupVars, handled, clientVars,
                   last>>

\* The awaited getMe settles.  Resolved: break out of the loop.  Rejected:
\* lastError = err, retries--, and wait before the next try if one is left.
GetMeSettles(who, outcome) ==
    /\ fetching.pc = "getMe"
    /\ fetching' =
           IF outcome \in GetMeErrors
           THEN [fetching EXCEPT !.lastError = outcome,
                                 !.retries = fetching.retries - 1,
                                 !.thrown = Append(fetching.thrown, outcome),
                                 !.pc = IF fetching.retries - 1 > 0
                                        THEN "backoff" ELSE "finish"]
           ELSE [fetching EXCEPT !.apiUser = IF outcome = "user" THEN who ELSE NoUser,
                                 !.pc = "finish"]
    /\ UNCHANGED <<db, tableVars, inflight, saving, mealVars, groupVars, handled, clientVars,
                   last>>

\* The backoff timer (1000 * (4 - retries) ms) fires: the next getMe is awaited.
BackoffElapsed ==
    /\ fetching.pc = "backoff"
    /\ fetching' = [fetching EXCEPT !.pc = "getMe", !.attempts = fetching.attempts + 1]
    /\ UNCHANGED <<db, tableVars, inflight, saving, mealVars, groupVars, handled, clientVars,
                   last>>

\* After the loop: the authenticated or the unauthenticated branch, then
\* the finally block.
FetchUserSettles(insertOks, netOk) ==
    /\ fetching.pc = "finish"
    /\ FetchUserFinish(fetching.apiUser, fetching.lastError, insertOks, netOk)

\* fetchUser on the web: getMe with retries.
FetchUserWeb(who, outcomes, insertOks, netOk) ==
    /\ platform = "web"
    /\ LET r == GetMeWithRetry(outcomes, who, 1, 3, NULL)
       IN  FetchUserFinish(r.apiUser, r.lastError, insertOks, netOk)

\* fetchUser on native: session token, then the cached user info.
FetchUserNative(sessionToken, cachedUser, insertOks, netOk) ==
    /\ platform = "native"
    /\ FetchUserFinish(IF sessionToken THEN cachedUser ELSE NoUser, NULL, insertOks, netOk)

\* The autoFetch effect on native with cached user info: the user is set
\* at once, fetchUser is not called.
AutoFetchNativeCached(cachedUser) ==
    /\ platform = "native"
    /\ user' = cachedUser
    /\ loading' = FALSE
    /\ last' = Call("autoFetch", cachedUser, <<>>, <<>>, TRUE, NULL, <<>>)
    /\ UNCHANGED <<db, tableVars, pendingVars, mealVars, groupVars, handled, platform, error, syncCalls,
                   cacheVars>>

\* logout
Logout ==
    /\ user' = NoUser
    /\ error' = NULL
    /\ last' = Call("logout", user, <<>>, <<>>, TRUE, NULL, <<>>)
    /\ UNCHANGED <<db, tableVars, pendingVars, mealVars, groupVars, handled, platform, loading, syncCalls,
                   cacheVars>>

----------------------------------------------------------------------------
(* Users table (server/db.ts upsertUser .. updateUserNotificationSettings) *)

\* ENV.ownerOpenId
ownerOpenId == "open-1"

\* Table users as the run finds it: the two users of `users`, signed in
\* once, with the column defaults for the notification settings.
UsersSeed ==
    {[id |-> u.id, openId |-> IF u.id = 1 THEN "open-1" ELSE "open-2",
      name |-> IF u.name = "" THEN NULL ELSE u.name,
      role |-> IF u.id = 1 THEN "admin" ELSE "user", lastSignedIn |-> 1,
      notificationEnabled |-> TRUE, lunchReminderTime |-> "12:00"] : u \in users}

UserDone(table) == [threw |-> FALSE, error |-> NULL, table |-> table]

UserThrown(table, msg) == [threw |-> TRUE, error |-> msg, table |-> table]

\* An upsertUser that throws when there is no database handle.
UpsertUserThrowsWithoutDb(table, user_, now) ==
    IF user_.openId = "" THEN UserThrown(table, "Error: User openId is required for upsert")
    ELSE UserThrown(table, "Error: Database not available")

\* upsertUser: INSERT ... ON DUPLICATE KEY UPDATE on the unique openId.  Of
\* the InsertUser it is handed, name and lastSignedIn are <<value>> or <<>>
\* (undefined).
UpsertUser(table, user_, now) ==
    IF user_.openId = "" THEN UserThrown(table, "Error: User openId is required for upsert")
    ELSE IF ~db THEN UserDone(table)
    ELSE LET signedIn == IF user_.lastSignedIn # <<>> THEN user_.lastSignedIn[1] ELSE now
             role_ == IF user_.openId = ownerOpenId THEN <<"admin">> ELSE <<>>
             setsNothing == user_.name = <<>> /\ user_.lastSignedIn = <<>> /\ role_ = <<>>
         IN  IF \E row \in table : row.openId = user_.openId
             THEN UserDone(
                      {IF row.openId # user_.openId THEN row
                       ELSE [row EXCEPT
                                !.name = IF user_.name # <<>> THEN user_.name[1] ELSE @,
                                !.lastSignedIn =
                                    IF user_.lastSignedIn # <<>> \/ setsNothing
                                    THEN signedIn ELSE @,
                                !.role = IF role_ # <<>> THEN role_[1] ELSE @] :
                          row \in table})
             ELSE UserDone(
                      table \cup
                          {[id |-> Cardinality(table) + 1, openId |-> user_.openId,
                            name |-> IF user_.name # <<>> THEN user_.name[1] ELSE NULL,
                            role |-> IF role_ # <<>> THEN role_[1] ELSE "user",
                            lastSignedIn |-> signedIn,
                            notificationEnabled |-> TRUE,
                            lunchReminderTime |-> "12:00"]})

\* getUserByOpenId / getUserById: <<row>> or <<>> (undefined).
GetUserByOpenId(table, openId) ==
    IF ~db \/ ~\E row \in table : row.openId = openId THEN <<>>
    ELSE <<CHOOSE row \in table : row.openId = openId>>

GetUserById(table, id) ==
    IF ~db \/ ~\E row \in table : row.id = id THEN <<>>
    ELSE <<CHOOSE row \in table : row.id = id>>

\* updateUserNotificationSettings
UpdateUserNotificationSettings(table, userId, enabled, reminderTime) ==
    IF ~db THEN UserThrown(table, "Error: Database not available")
    ELSE UserDone(
             {IF row.id # userId THEN row
              ELSE [row EXCEPT !.notificationEnabled = enabled,
                               !.lunchReminderTime = reminderTime] : row \in table})

----------------------------------------------------------------------------
(* The remaining queries of server/db.ts, and every exported function of   *)
(* the file as a call of its own                                            *)

\* getRecentMeals: the caller's rows, latest date first and within a date
\* the latest insert first, cut at `limit`.
GetRecentMeals(rows, userId, limit) ==
    IF ~db THEN <<>>
    ELSE LET mine == {r \in rows : r.userId = userId}
             sorted == CHOOSE seq \in [1..Cardinality(mine) -> mine] :
                           /\ \A i, j \in DOMAIN seq : i # j => seq[i] # seq[j]
                           /\ \A i, j \in DOMAIN seq :
                                  i < j =>
                                      \/ DayOfDate[seq[i].date] > DayOfDate[seq[j].date]
                                      \/ /\ seq[i].date = seq[j].date
                                         /\ seq[i].id > seq[j].id
         IN  SubSeq(sorted, 1, Min(limit, Len(sorted)))

\* getUserGroups: the groups the user has a membership row in, each with
\* memberRole; memberships.find takes the first row of the group, and with
\* more than one row every role the SELECT may list first is an answer.
GetUserGroups(store, userId) ==
    IF ~db THEN {}
    ELSE LET memberships == {m \in store.members : m.userId = userId}
         IN  IF Cardinality(memberships) = 0 THEN {}
             ELSE LET groupIds == {m.groupId : m \in memberships}
                      groupsResult == {g \in store.groups : g.id \in groupIds}
                  IN  UNION {{[memberRole |-> m.role] @@ g :
                                 m \in {row \in memberships : row.groupId = g.id}} :
                             g \in groupsResult}

\* getGroupMembers: the rows of the group, each with the user's id and name.
GetGroupMembers(store, table, groupId) ==
    IF ~db THEN {}
    ELSE LET members == {m \in store.members : m.groupId = groupId}
             userIds == {m.userId : m \in members}
         IN  IF Cardinality(userIds) = 0 THEN {}
             ELSE {[member |-> member,
                    user |-> IF \E u \in table : u.id = member.userId
                             THEN LET u == CHOOSE u \in table : u.id = member.userId
                                  IN  [id |-> u.id, name |-> u.name]
                             ELSE [id |-> member.userId, name |-> NULL]] :
                      member \in members}

\* The functions of server/db.ts that only SELECT, and those that write.
DbLists ==
    {"getMealsByDate", "getMealsByDateRange", "getRecentMeals", "getUserGroups",
     "getGroupMembers", "getGroupMealsForDate"}

DbLookups == {"getUserByOpenId", "getUserById", "getTodayLunch", "getGroupById",
              "getGroupByInviteCode"}

DbWrites ==
    {"createMealRecord", "deleteMealRecord", "createGroup", "joinGroup", "leaveGroup",
     "deleteGroup", "updateUserNotificationSettings", "upsertUser"}

\* What a list query of server/db.ts answers.
DbList(fn, userId, groupId, date) ==
    CASE fn = "getMealsByDate" -> GetMealsByDate(mealRecords, userId, date)
      [] fn = "getMealsByDateRange" -> GetMealsByDateRange(mealRecords, userId, date, date)
      [] fn = "getRecentMeals" ->
             LET recent == GetRecentMeals(mealRecords, userId, 10)
             IN  {recent[i] : i \in DOMAIN recent}
      [] fn = "getUserGroups" -> GetUserGroups(GroupStore, userId)
      [] fn = "getGroupMembers" -> GetGroupMembers(GroupStore, userTable, groupId)
      [] fn = "getGroupMealsForDate" ->
             GetGroupMealsForDate(GroupStore, mealRecords, groupId, date)

\* The answers a single-record lookup of server/db.ts can give.
DbLookup(fn, userId, groupId, date, inviteCode) ==
    CASE fn = "getUserByOpenId" ->
             {GetUserByOpenId(userTable, IF userId = 1 THEN "open-1" ELSE "open-2")}
      [] fn = "getUserById" -> {GetUserById(userTable, userId)}
      [] fn = "getTodayLunch" -> GetTodayLunch(mealRecords, userId, date)
      [] fn = "getGroupById" -> {GetGroupById(GroupStore, groupId)}
      [] fn = "getGroupByInviteCode" -> {GetGroupByInviteCode(GroupStore, inviteCode)}

\* A list query called on its own.
DbListCall(fn, userId, groupId, date) ==
    /\ last' = Call(fn, userId, [groupId |-> groupId, date |-> date], <<>>, TRUE, NULL,
                    DbList(fn, userId, groupId, date))
    /\ UNCHANGED <<db, tableVars, pendingVars, mealVars, groupVars, handled, clientVars>>

\* A single-record lookup called on its own.
DbLookupCall(fn, userId, groupId, date, inviteCode) ==
    /\ \E result \in DbLookup(fn, userId, groupId, date, inviteCode) :
           last' = Call(fn, userId, [groupId |-> groupId, date |-> date], <<>>, TRUE,
                        NULL, result)
    /\ UNCHANGED <<db, tableVars, pendingVars, mealVars, groupVars, handled, clientVars>>

\* createMealRecord / deleteMealRecord called on their own.
DbCreateMealRecord(userId, meal) ==
    /\ handled < MaxHandled
    /\ handled' = handled + 1
    /\ LET r == CreateMealRecord(MealStore, MealRow(userId, meal), TRUE)
       IN  /\ mealRecords' = r.store.rows
           /\ mealAutoInc' = r.store.autoInc
           /\ last' = Call("createMealRecord", userId, <<meal>>, <<>>, ~r.threw, r.error,
                           r.id)
    /\ UNCHANGED <<db, tableVars, pendingVars, groupVars, clientVars>>

DbDeleteMealRecord(userId, id) ==
    /\ LET r == DeleteMealRecord(MealStore, id, userId)
       IN  /\ mealRecords' = r.store.rows
           /\ mealAutoInc' = r.store.autoInc
           /\ last' = Call("deleteMealRecord", userId, id, <<>>, ~r.threw, r.error, 0)
    /\ UNCHANGED <<db, tableVars, pendingVars, groupVars, handled, clientVars>>

\* createGroup, joinGroup, leaveGroup and deleteGroup called on their own.
DbGroupWrite(fn, userId, groupId, draws) ==
    /\ fn = "createGroup" => groupAutoInc <= MaxGroups
    /\ fn \in {"createGroup", "joinGroup"} => memberAutoInc <= MaxMemberRows
    /\ LET r == CASE fn = "createGroup" -> CreateGroup(GroupStore, "family", NULL, userId, draws)
                  [] fn = "joinGroup" -> JoinGroup(GroupStore, groupId, userId)
                  [] fn = "leaveGroup" -> LeaveGroup(GroupStore, groupId, userId)
                  [] fn = "deleteGroup" -> DeleteGroup(GroupStore, groupId, userId)
       IN  /\ SetGroupStore(r.store)
           /\ last' = Call(fn, userId, groupId, <<>>, ~r.threw, r.error, r.id)
    /\ UNCHANGED <<db, tableVars, pendingVars, mealVars, handled, clientVars>>

\* upsertUser called on its own, as the sign-in callback does.
DbUpsertUser(user_, now) ==
    /\ LET r == UpsertUser(userTable, user_, now)
       IN  /\ userTable' = r.table
           /\ last' = Call("upsertUser", NoUser, user_, <<>>, ~r.threw, r.error, 0)
    /\ UNCHANGED <<db, favoriteMeals, favoriteAutoInc, pendingVars, mealVars, groupVars,
                   handled, clientVars>>

\* updateUserNotificationSettings called on its own.
DbUpdateUserNotificationSettings(userId, enabled, reminderTime) ==
    /\ LET r == UpdateUserNotificationSettings(userTable, userId, enabled, reminderTime)
       IN  /\ userTable' = r.table
           /\ last' = Call("updateUserNotificationSettings", userId,
                           [enabled |-> enabled, lunchReminderTime |-> reminderTime],
                           <<>>, ~r.threw, r.error, 0)
    /\ UNCHANGED <<db, favoriteMeals, favoriteAutoInc, pendingVars, mealVars, groupVars,
                   handled, clientVars>>

\* The server process starts: _db is null again and getDb() yields a handle
\* from then on exactly when DATABASE_URL is set.
ServerStart(databaseUrl) ==
    /\ db' = databaseUrl
    /\ last' = Call("getDb", NoUser, databaseUrl, <<>>, TRUE, NULL, 0)
    /\ UNCHANGED <<tableVars, pendingVars, mealVars, groupVars, handled, clientVars>>

----------------------------------------------------------------------------
(* Favorites (favorites router, FavoritesScreen.handleUseFavorite) *)

\* What a caller hands to favorites.create: a well-formed favorite, one
\* with an empty dish name, one with a category outside the enumeration.
FavoriteInputs ==
    {[dishName |-> "curry", category |-> "japanese"],
     [dishName |-> "", category |-> "japanese"],
     [dishName |-> "curry", category |-> "korean"]}

FavoriteThrown(rows, msg) == [threw |-> TRUE, error |-> msg, rows |-> rows]

FavoriteDone(rows) == [threw |-> FALSE, error |-> NULL, rows |-> rows]

\* favorites.use: usageCount + 1 and lastUsedAt = now on the caller's
\* favorite of that id.
UseFavorite(rows, id, userId, now) ==
    IF ~db THEN FavoriteThrown(rows, "Error: Database not available")
    ELSE FavoriteDone({IF f.id = id /\ f.userId = userId
                       THEN [f EXCEPT !.usageCount = @ + 1, !.lastUsedAt = now]
                       ELSE f : f \in rows})

\* favorites.create
FavoritesCreate(u, input) ==
    /\ favoriteAutoInc <= MaxFavorites
    /\ IF Len(input.dishName) < 1 \/ input.category \notin CategoryEnum
       THEN /\ last' = Call("favorites.create", u, input, <<>>, FALSE, "BAD_REQUEST", 0)
            /\ UNCHANGED <<favoriteMeals, favoriteAutoInc>>
       ELSE /\ favoriteMeals' =
                   favoriteMeals \cup
                       {[id |-> favoriteAutoInc, userId |-> u,
                         dishName |-> input.dishName, category |-> input.category,
                         note |-> NULL, usageCount |-> 0, lastUsedAt |-> NULL]}
            /\ favoriteAutoInc' = favoriteAutoInc + 1
            /\ last' = Call("favorites.create", u, input, <<>>, TRUE, NULL, favoriteAutoInc)
    /\ UNCHANGED <<db, userTable, pendingVars, mealVars, groupVars, handled, clientVars>>

\* favorites.delete: the caller's favorite of that id.
FavoritesDelete(u, id) ==
    /\ favoriteMeals' = {f \in favoriteMeals : ~(f.id = id /\ f.userId = u)}
    /\ last' = Call("favorites.delete", u, id, <<>>, TRUE, NULL, 0)
    /\ UNCHANGED <<db, userTable, favoriteAutoInc, pendingVars, mealVars, groupVars,
                   handled, clientVars>>

\* A handleUseFavorite whose two calls are one transaction: a failed record
\* creation takes the increment back.
HandleUseFavoriteInOneTransaction(u, favorite, today, now, insertOk) ==
    /\ handled < MaxHandled
    /\ handled' = handled + 1
    /\ LET used  == UseFavorite(favoriteMeals, favorite.id, u, now)
           input == [date |-> today, mealType |-> "lunch",
                     dishName |-> favorite.dishName, category |-> favorite.category]
       IN  IF used.threw
           THEN /\ last' = Call("handleUseFavorite", u, favorite, <<>>, FALSE,
                                used.error, 0)
                /\ UNCHANGED <<favoriteMeals, mealVars>>
           ELSE LET r == CreateMealRecord(MealStore, MealRow(u, input), insertOk)
                IN  /\ favoriteMeals' = IF r.threw THEN favoriteMeals ELSE used.rows
                    /\ mealRecords' = r.store.rows
                    /\ mealAutoInc' = r.store.autoInc
                    /\ last' = Call("handleUseFavorite", u, favorite, <<insertOk>>,
                                    ~r.threw, r.error, r.id)
    /\ UNCHANGED <<db, userTable, favoriteAutoInc, pendingVars, groupVars, clientVars>>

\* handleUseFavorite on a favorite of the screen's list: favorites.use, then
\* meals.create with today's date and the favorite's dish; a throw of either
\* call is caught and shown as an alert.  env holds what the database did
\* with the INSERT of the record (<<>>: meals.create was not called).
HandleUseFavorite(u, favorite, today, now, insertOk) ==
    /\ handled < MaxHandled
    /\ handled' = handled + 1
    /\ LET used  == UseFavorite(favoriteMeals, favorite.id, u, now)
           input == [date |-> today, mealType |-> "lunch",
                     dishName |-> favorite.dishName, category |-> favorite.category]
       IN  /\ favoriteMeals' = used.rows
           /\ IF used.threw
              THEN /\ last' = Call("handleUseFavorite", u, favorite, <<>>, FALSE,
                                   used.error, 0)
                   /\ UNCHANGED mealVars
              ELSE LET r == CreateMealRecord(MealStore, MealRow(u, input), insertOk)
                   IN  /\ mealRecords' = r.store.rows
                       /\ mealAutoInc' = r.store.autoInc
                       /\ last' = Call("handleUseFavorite", u, favorite, <<insertOk>>,
                                       ~r.threw, r.error, r.id)
    /\ UNCHANGED <<db, userTable, favoriteAutoInc, pendingVars, groupVars, clientVars>>

----------------------------------------------------------------------------
(* Group requests statement by statement: every awaited database statement *)
(* of groups.create, groups.join and groups.delete is a step of its own,    *)
(* and the statements of two requests interleave                            *)

\* The group request slots of a run, and a slot with no request in it.
Requests == {"r1", "r2"}

Idle == [op |-> "idle"]

\* A new request takes the first free slot.
FreeSlot == CHOOSE r \in Requests : inflight[r] = Idle /\ (r = "r2" => inflight["r1"] # Idle)

HasFreeSlot == \E r \in Requests : inflight[r] = Idle

\* The requests under way that still have an INSERT INTO group_members ahead.
PendingInserts ==
    Cardinality({r \in Requests :
                    /\ inflight[r] # Idle
                    /\ inflight[r].pc \in {"insertOwner", "check", "insert"}})

\* groups.create up to createGroup's first INSERT: the group row is in, or
\* the unique index on inviteCode has rejected it.
StartCreate(u, name, draws) ==
    /\ HasFreeSlot
    /\ groupAutoInc <= MaxGroups
    /\ memberAutoInc + PendingInserts <= MaxMemberRows
    /\ LET inviteCode == generateInviteCode(draws)
       IN  IF ~db \/ \E g \in groups : g.inviteCode = inviteCode
           THEN /\ last' = Call("groups.create", u, <<name>>, draws, FALSE,
                                IF ~db THEN "Error: Database not available"
                                ELSE "Error: Duplicate entry for key groups_inviteCode_unique",
                                <<>>)
                /\ UNCHANGED <<groups, groupAutoInc, inflight>>
           ELSE /\ groups' = groups \cup {[id |-> groupAutoInc, name |-> name,
                                           description |-> NULL,
                                           inviteCode |-> inviteCode, ownerId |-> u]}
                /\ groupAutoInc' = groupAutoInc + 1
                /\ inflight' = [inflight EXCEPT ![FreeSlot] =
                                   [op |-> "groups.create", pc |-> "insertOwner",
                                    caller |-> u, groupId |-> groupAutoInc,
                                    name |-> name, draws |-> draws]]
                /\ UNCHANGED last
    /\ UNCHANGED <<db, tableVars, fetching, saving, mealVars, groupMembers, memberAutoInc,
                   handled, clientVars>>

\* A createGroup whose two INSERTs are one transaction: when the second
\* fails the group row is taken back.
CreateInsertOwnerInTransaction(r, insertOk) ==
    /\ inflight[r] # Idle
    /\ inflight[r].pc = "insertOwner"
    /\ LET call == inflight[r]
       IN  IF insertOk
           THEN /\ SetGroupStore(InsertMember(GroupStore, call.groupId, call.caller, "owner"))
                /\ inflight' = [inflight EXCEPT ![r].pc = "getGroupById"]
                /\ UNCHANGED last
           ELSE /\ groups' = {g \in groups : g.id # call.groupId}
                /\ last' = Call("groups.create", call.caller, <<call.name>>, call.draws,
                                FALSE, "Error: insert failed", <<>>)
                /\ inflight' = [inflight EXCEPT ![r] = Idle]
                /\ UNCHANGED <<groupAutoInc, groupMembers, memberAutoInc>>
    /\ UNCHANGED <<db, tableVars, fetching, saving, mealVars, handled, clientVars>>

\* createGroup's second INSERT, the owner's membership row; when it fails
\* (insertOk = FALSE) createGroup throws with the group row left in place.
CreateInsertOwner(r, insertOk) ==
    /\ inflight[r] # Idle
    /\ inflight[r].pc = "insertOwner"
    /\ LET call == inflight[r]
       IN  IF insertOk
           THEN /\ SetGroupStore(InsertMember(GroupStore, call.groupId, call.caller, "owner"))
                /\ inflight' = [inflight EXCEPT ![r].pc = "getGroupById"]
                /\ UNCHANGED last
           ELSE /\ last' = Call("groups.create", call.caller, <<call.name>>, call.draws,
                                FALSE, "Error: insert failed", <<>>)
                /\ inflight' = [inflight EXCEPT ![r] = Idle]
                /\ UNCHANGED groupVars
    /\ UNCHANGED <<db, tableVars, fetching, saving, mealVars, handled, clientVars>>

\* groups.create's closing getGroupById: the row, or null when the group
\* has been deleted since.
CreateReturn(r) ==
    /\ inflight[r] # Idle
    /\ inflight[r].pc = "getGroupById"
    /\ LET call == inflight[r]
       IN  last' = Call("groups.create", call.caller, <<call.name>>, call.draws, TRUE,
                        NULL, GetGroupById(GroupStore, call.groupId))
    /\ inflight' = [inflight EXCEPT ![r] = Idle]
    /\ UNCHANGED <<db, tableVars, fetching, saving, mealVars, groupVars, handled,
                   clientVars>>

\* groups.join up to getGroupByInviteCode.
StartJoin(u, inviteCode) ==
    /\ HasFreeSlot
    /\ memberAutoInc + PendingInserts <= MaxMemberRows
    /\ LET group == GetGroupByInviteCode(GroupStore, inviteCode)
       IN  IF group = <<>>
           THEN /\ last' = Call("groups.join", u, inviteCode, <<>>, FALSE,
                                "Error: Invalid invite code", <<>>)
                /\ UNCHANGED inflight
           ELSE /\ inflight' = [inflight EXCEPT ![FreeSlot] =
                                   [op |-> "groups.join", pc |-> "check", caller |-> u,
                                    groupId |-> group[1].id, group |-> group,
                                    inviteCode |-> inviteCode]]
                /\ UNCHANGED last
    /\ UNCHANGED <<db, tableVars, fetching, saving, mealVars, groupVars, handled,
                   clientVars>>

\* joinGroup's SELECT on (groupId, userId) and the throw on a row found.
JoinCheck(r) ==
    /\ inflight[r] # Idle
    /\ inflight[r].pc = "check"
    /\ LET call == inflight[r]
           existing == {m \in groupMembers :
                           m.groupId = call.groupId /\ m.userId = call.caller}
       IN  IF ~db \/ existing # {}
           THEN /\ last' = Call("groups.join", call.caller, call.inviteCode, <<>>, FALSE,
                                IF ~db THEN "Error: Database not available"
                                ELSE "Error: Already a member of this group", <<>>)
                /\ inflight' = [inflight EXCEPT ![r] = Idle]
           ELSE /\ inflight' = [inflight EXCEPT ![r].pc = "insert"]
                /\ UNCHANGED last
    /\ UNCHANGED <<db, tableVars, fetching, saving, mealVars, groupVars, handled,
                   clientVars>>

\* A joinGroup whose INSERT meets a unique index on (groupId, userId).
JoinInsertUniqueIndex(r) ==
    /\ inflight[r] # Idle
    /\ inflight[r].pc = "insert"
    /\ LET call == inflight[r]
       IN  IF \E m \in groupMembers : m.groupId = call.groupId /\ m.userId = call.caller
           THEN /\ last' = Call("groups.join", call.caller, call.inviteCode, <<>>, FALSE,
                                "Error: Duplicate entry", <<>>)
                /\ UNCHANGED groupVars
           ELSE /\ SetGroupStore(InsertMember(GroupStore, call.groupId, call.caller, "member"))
                /\ last' = Call("groups.join", call.caller, call.inviteCode, <<>>, TRUE,
                                NULL, call.group)
    /\ inflight' = [inflight EXCEPT ![r] = Idle]
    /\ UNCHANGED <<db, tableVars, fetching, saving, mealVars, handled, clientVars>>

\* joinGroup's INSERT, and groups.join returning the group it had looked up.
JoinInsert(r) ==
    /\ inflight[r] # Idle
    /\ inflight[r].pc = "insert"
    /\ LET call == inflight[r]
       IN  /\ SetGroupStore(InsertMember(GroupStore, call.groupId, call.caller, "member"))
           /\ last' = Call("groups.join", call.caller, call.inviteCode, <<>>, TRUE, NULL,
                           call.group)
    /\ inflight' = [inflight EXCEPT ![r] = Idle]
    /\ UNCHANGED <<db, tableVars, fetching, saving, mealVars, handled, clientVars>>

\* groups.delete up to deleteGroup's ownership check.
StartDelete(u, groupId) ==
    /\ HasFreeSlot
    /\ LET group == GetGroupById(GroupStore, groupId)
       IN  IF ~db \/ group = <<>> \/ group[1].ownerId # u
           THEN /\ last' = Call("groups.delete", u, groupId, <<>>, FALSE,
                                IF ~db THEN "Error: Database not available"
                                ELSE "Error: Not authorized to delete this group", <<>>)
                /\ UNCHANGED inflight
           ELSE /\ inflight' = [inflight EXCEPT ![FreeSlot] =
                                   [op |-> "groups.delete", pc |-> "deleteMembers",
                                    caller |-> u, groupId |-> groupId]]
                /\ UNCHANGED last
    /\ UNCHANGED <<db, tableVars, fetching, saving, mealVars, groupVars, handled,
                   clientVars>>

\* deleteGroup's DELETE FROM group_members WHERE groupId = ?
DeleteMembers(r) ==
    /\ inflight[r] # Idle
    /\ inflight[r].pc = "deleteMembers"
    /\ groupMembers' = {m \in groupMembers : m.groupId # inflight[r].groupId}
    /\ inflight' = [inflight EXCEPT ![r].pc = "deleteGroup"]
    /\ UNCHANGED <<db, tableVars, fetching, saving, mealVars, groups, groupAutoInc,
                   memberAutoInc, last, handled, clientVars>>

\* deleteGroup's DELETE FROM groups WHERE id = ?, and groups.delete returning.
DeleteGroupRow(r) ==
    /\ inflight[r] # Idle
    /\ inflight[r].pc = "deleteGroup"
    /\ groups' = {g \in groups : g.id # inflight[r].groupId}
    /\ last' = Call("groups.delete", inflight[r].caller, inflight[r].groupId, <<>>, TRUE,
                    NULL, <<[success |-> TRUE]>>)
    /\ inflight' = [inflight EXCEPT ![r] = Idle]
    /\ UNCHANGED <<db, tableVars, fetching, saving, mealVars, groupAutoInc, groupMembers,
                   memberAutoInc, handled, clientVars>>

----------------------------------------------------------------------------
(* Specifications *)

NoCall == Call("none", 0, <<>>, <<>>, TRUE, NULL, 0)

\* The server as started and the client as first rendered, on one platform.
InitOn(os) ==
    /\ db = TRUE
    /\ mealRecords = {}
    /\ mealAutoInc = 1
    /\ groups = {}
    /\ groupAutoInc = 1
    /\ groupMembers = {}
    /\ memberAutoInc = 1
    /\ last = NoCall
    /\ handled = 0
    /\ platform = os
    /\ storage = <<>>
    /\ meals = [inst \in Instances |-> <<>>]
    /\ localMeals = meals["useAuth"]
    /\ user = NoUser
    /\ loading = TRUE
    /\ error = NULL
    /\ syncCalls = <<>>
    /\ userTable = UsersSeed
    /\ favoriteMeals = {}
    /\ favoriteAutoInc = 1
    /\ inflight = [r \in Requests |-> Idle]
    /\ fetching = NotFetching
    /\ saving = <<>>

Init == InitOn("web")

InitAuth == \E os \in {"web", "native"} : InitOn(os)

Next ==
    \/ \E u \in Users, input \in MealInputs, insertOk \in BOOLEAN :
           MealsCreate(u, input, insertOk)
    \/ \E u \in Users, input \in Batches :
           \E insertOks \in [1..Len(input) -> BOOLEAN] : SyncLocalMeals(u, input, insertOks)
    \/ \E u \in Users, input \in Batches :
           \E insertOks \in [1..Len(input) -> BOOLEAN] : MigrateGuestData(u, input, insertOks)

\* A group id no group ever has is among the ids a caller can name.
GroupIds == 1..(MaxGroups + 1)

NextGroups ==
    \/ \E u \in Users, name \in GroupNames, draws \in RandomDraws :
           GroupsCreate(u, name, draws)
    \/ \E u \in Users, inviteCode \in InviteCodes : GroupsJoin(u, inviteCode)
    \/ \E u \in Users, groupId \in GroupIds : GroupsLeave(u, groupId)
    \/ \E u \in Users, groupId \in GroupIds : GroupsDelete(u, groupId)

\* The group store with groups.create, groups.join, groups.leave and
\* groups.delete, each call running to completion.
SpecGroups == Init /\ [][NextGroups]_vars

NextAuth ==
    \/ \E inst \in Instances : LoadMeals(inst)
    \/ \E meal \in LocalMealInput : AddMeal("RecordScreen", meal, meal.createdAt)
    \/ \E who \in Users, outcomes \in [1..3 -> {"user", "null", "throw"}],
          netOk \in BOOLEAN :
           \E insertOks \in [1..Len(localMeals) -> BOOLEAN] :
               FetchUserWeb(who, outcomes, insertOks, netOk)
    \/ \E sessionToken \in BOOLEAN, cachedUser \in Users \cup {NoUser},
          netOk \in BOOLEAN :
           \E insertOks \in [1..Len(localMeals) -> BOOLEAN] :
               FetchUserNative(sessionToken, cachedUser, insertOks, netOk)
    \/ \E cachedUser \in Users : AutoFetchNativeCached(cachedUser)
    \/ Logout

\* Ids a caller can name for a meal record: every id the table can have
\* given out, and one more.
MealIds == 1..(MaxHandled + 1)

\* The Mondays and other days a caller asks a report for: weeks around the
\* model's dates, a week across the new year, one across the end of
\* February and one across the last Sunday of March.
WeekStarts == {"2025-01-05", "2025-01-11", "2024-12-29", "2025-02-26", "2025-03-25"}

\* The record store with meals.create, the reads and meals.delete.
NextRecords ==
    \/ \E u \in Users, input \in MealInputs, insertOk \in BOOLEAN :
           MealsCreate(u, input, insertOk)
    \/ \E u \in Users, date \in Dates : MealsGetByDate(u, date)
    \/ \E u \in Users, date \in Dates : MealsGetTodayLunch(u, date)
    \/ \E u \in Users, id \in MealIds : MealsDelete(u, id)

SpecRecords == Init /\ [][NextRecords]_vars

\* The record store with the weekly report read from it.
NextReports ==
    \/ \E u \in Users, input \in PlainMealInputs : MealsCreate(u, input, TRUE)
    \/ \E u \in Users, weekStartDate \in WeekStarts, tz \in TimeZones :
           ReportsGetWeeklyReport(u, weekStartDate, tz)

SpecReports == Init /\ [][NextReports]_vars

\* The weeks a caller asks advice for: one holding both dates of the model,
\* one holding the later date only, one holding neither.
AdviceWeekStarts == {"2025-01-05", "2025-01-11", "2025-03-25"}

\* The lunches among the plain inputs.
LunchInputs == {input \in PlainMealInputs : input.mealType = "lunch"}

\* The record store, filled with lunches, with the nutrition advice read
\* from it.
NextAdvice ==
    \/ \E u \in Users, input \in LunchInputs : MealsCreate(u, input, TRUE)
    \/ \E u \in Users, weekStartDate \in AdviceWeekStarts, tz \in TimeZones,
          response \in AdviceResponses :
           ReportsGetNutritionAdvice(u, weekStartDate, tz, response)

SpecAdvice == Init /\ [][NextAdvice]_vars

\* The one stream of draws the single group of a run is created from.
ShareDraws == CHOOSE draws \in RandomDraws : TRUE

\* The groups a read can name: the first group, and an id no group has.
ShareGroupIds == {1, 2}

\* One group, the record store filled with lunches, and
\* groups.getMealsForDate.
NextShare ==
    \/ \E u \in Users, name \in GroupNames : GroupsCreate(u, name, ShareDraws)
    \/ \E u \in Users : GroupsJoin(u, generateInviteCode(ShareDraws))
    \/ \E u \in Users : GroupsLeave(u, 1)
    \/ \E u \in Users, input \in LunchInputs : MealsCreate(u, input, TRUE)
    \/ \E u \in Users, groupId \in ShareGroupIds, date \in Dates :
           GroupsGetMealsForDate(u, groupId, date)

SpecShare == Init /\ [][NextShare]_vars

\* What the completion service answers to the group prompt in the model.
GroupLLMResponses ==
    {r \in LLMResponses :
        r.threw \/ r.content.type # "string" \/ r.content.text \in {JsonCut, JsonThree}}

\* A group of user 1 that user 2 may join, the record store, and the two
\* recommendation procedures; the group asked about is the first, which has
\* no member until it is created.
NextRecommend ==
    \/ \E name \in GroupNames : GroupsCreate(1, name, ShareDraws)
    \/ GroupsJoin(2, generateInviteCode(ShareDraws))
    \/ \E u \in Users, input \in PlainMealInputs : MealsCreate(u, input, TRUE)
    \/ \E u \in Users, lunchDishName \in DishNames, lunchCategory \in Categories,
          response \in LLMResponses :
           RecommendationsGetDinner(u, lunchDishName, lunchCategory, response)
    \/ \E u \in Users, date \in Dates, response \in GroupLLMResponses :
           RecommendationsGetGroupDinner(u, 1, date, response)

SpecRecommend == Init /\ [][NextRecommend]_vars

\* The users the sign-in callback upserts: a new one, a known one signing in
\* again, and one without an openId.
OutageUpserts ==
    {[openId |-> "open-3", name |-> <<"Mio">>, lastSignedIn |-> <<>>],
     [openId |-> "open-1", name |-> <<>>, lastSignedIn |-> <<5>>],
     [openId |-> "", name |-> <<>>, lastSignedIn |-> <<>>]}

GroupWrites == {"createGroup", "joinGroup", "leaveGroup", "deleteGroup"}

\* Every exported function of server/db.ts, called while the server is
\* started with and without DATABASE_URL.
NextOutage ==
    \/ \E databaseUrl \in BOOLEAN : ServerStart(databaseUrl)
    \/ \E fn \in DbLists : DbListCall(fn, 1, 1, "2025-01-10")
    \/ \E fn \in DbLookups :
           DbLookupCall(fn, 1, 1, "2025-01-10", generateInviteCode(ShareDraws))
    \/ DbCreateMealRecord(1, BaseMealInput)
    \/ DbDeleteMealRecord(1, 1)
    \/ \E fn \in GroupWrites : DbGroupWrite(fn, 2, 1, ShareDraws)
    \/ \E user_ \in OutageUpserts : DbUpsertUser(user_, 9)
    \/ DbUpdateUserNotificationSettings(1, FALSE, "08:30")

SpecOutage == Init /\ [][NextOutage]_vars

FavoriteIds == 1..(MaxFavorites + 1)

\* The favorites screen of a signed-in user: favorites are created, used
\* and deleted.
NextFavorites ==
    \/ \E u \in Users, input \in FavoriteInputs : FavoritesCreate(u, input)
    \/ \E u \in Users, id \in FavoriteIds : FavoritesDelete(u, id)
    \/ \E favorite \in favoriteMeals, now \in CreatedAts, insertOk \in BOOLEAN :
           HandleUseFavorite(favorite.userId, favorite, "2025-01-10", now, insertOk)

SpecFavorites == Init /\ [][NextFavorites]_vars

\* The codes a joiner types: the code of the run's group, and a well-formed
\* code no group has.
StepInviteCodes ==
    {generateInviteCode(ShareDraws), <<"Z", "Z", "Z", "Z", "Z", "Z", "Z", "Z">>}

\* Two group requests at a time, their statements interleaved; user 1
\* creates the groups, both users join and delete.
NextGroupSteps ==
    \/ \E name \in GroupNames : StartCreate(1, name, ShareDraws)
    \/ \E r \in Requests, insertOk \in BOOLEAN : CreateInsertOwner(r, insertOk)
    \/ \E r \in Requests : CreateReturn(r)
    \/ \E u \in Users, inviteCode \in StepInviteCodes : StartJoin(u, inviteCode)
    \/ \E r \in Requests : JoinCheck(r)
    \/ \E r \in Requests : JoinInsert(r)
    \/ \E u \in Users, groupId \in ShareGroupIds : StartDelete(u, groupId)
    \/ \E r \in Requests : DeleteMembers(r)
    \/ \E r \in Requests : DeleteGroupRow(r)

SpecGroupSteps == Init /\ [][NextGroupSteps]_vars

NextFetch ==
    \/ FetchUserCalled
    \/ \E who \in Users, outcome \in GetMeOutcomes : GetMeSettles(who, outcome)
    \/ BackoffElapsed
    \/ \E netOk \in BOOLEAN :
           \E insertOks \in [1..Len(localMeals) -> BOOLEAN] :
               FetchUserSettles(insertOks, netOk)
    \/ Logout

\* fetchUser on the web, one await at a time, with logout in between.
SpecFetch == Init /\ [][NextFetch]_vars

\* Every awaited promise settles: the HTTP client resolves or rejects the
\* getMe request, the backoff timer fires, the storage calls return.
FetchFairness ==
    /\ WF_vars(\E who \in Users, outcome \in GetMeOutcomes : GetMeSettles(who, outcome))
    /\ WF_vars(BackoffElapsed)
    /\ WF_vars(\E netOk \in BOOLEAN :
                   \E insertOks \in [1..Len(localMeals) -> BOOLEAN] :
                       FetchUserSettles(insertOks, netOk))

SpecFetchFair == SpecFetch /\ FetchFairness

NextCache ==
    \/ \E inst \in Instances : LoadMeals(inst)
    \/ \E meal \in LocalMealInput :
           /\ meal.mealType = "lunch"
           /\ meal.date = "2025-01-10"
           /\ AddMealCall("RecordScreen", meal, meal.createdAt)
    \/ \E id \in CreatedAts : DeleteMealCall("RecordScreen", id)
    \/ \E setItemOk \in BOOLEAN : SaveMealsSettles(setItemOk)

\* The guest cache of a signed-out client, one await at a time.
SpecCache == Init /\ [][NextCache]_vars

\* The client: the guest local cache, fetchUser and logout.
SpecAuth == InitAuth /\ [][NextAuth]_vars

\* The record store with meals.create, meals.syncLocalMeals and
\* migration.migrateGuestData.
Spec == Init /\ [][Next]_vars

----------------------------------------------------------------------------
(* Guest-data migration: C1 - C3 *)

IsMigration(call) ==
    call.op \in {"meals.syncLocalMeals", "migration.migrateGuestData"}

SameSlot(a, b) == a.date = b.date /\ a.mealType = b.mealType

\* C1: a guest-data migration (migration.migrateGuestData or
\* meals.syncLocalMeals) never inserts a record for a (date, mealType) the
\* caller already had a remote record for: such a record is skipped, so
\* migrating it again inserts nothing.
C1_MigrationSkipsDuplicates ==
    [][IsMigration(last') =>
          \A r \in mealRecords' \ mealRecords :
              ~\E m \in mealRecords : m.userId = last'.caller /\ SameSlot(m, r)]_vars

\* C2: the migratedCount a migrateGuestData call reports is the number of
\* rows the call added to meal_records, every added row is owned by the
\* caller and no row is removed; an empty list gives 0 and an unchanged table.
C2_MigratedCountIsInserted ==
    [][last'.op = "migration.migrateGuestData" =>
          LET added == mealRecords' \ mealRecords
          IN  /\ mealRecords \subseteq mealRecords'
              /\ Cardinality(added) = Value(last')
              /\ \A r \in added : r.userId = last'.caller
              /\ Input(last') = <<>> => Value(last') = 0 /\ mealRecords' = mealRecords]_vars

\* A migration of two records of which exactly one was inserted.
C2_Witness ==
    /\ last.op = "migration.migrateGuestData"
    /\ Len(Input(last)) = 2
    /\ Value(last) = 1
    /\ \E r \in mealRecords : r.userId = last.caller

\* C3: syncLocalMeals returns one result per input record, in input order,
\* tagged with the record's createdAt; record i fails exactly when its own
\* insert fails, whatever happened to the records before it; a failure
\* carries an error text and a success the id of a new row holding record i
\* for the caller; new rows are numbered in array order.
C3_SyncPerRecord ==
    [][last'.op = "meals.syncLocalMeals" =>
          LET input   == Input(last')
              results == Value(last')
              added   == mealRecords' \ mealRecords
          IN  /\ Len(results) = Len(input)
              /\ mealRecords \subseteq mealRecords'
              /\ Cardinality(added) = Cardinality({i \in 1..Len(input) : results[i].success})
              /\ \A i \in 1..Len(input) :
                    /\ results[i].originalCreatedAt = input[i].createdAt
                    /\ results[i].success = Env(last')[i]
                    /\ ~results[i].success => results[i].error # NULL
                    /\ results[i].success =>
                          \E r \in added :
                              /\ r.id = results[i].id
                              /\ r = [id |-> r.id] @@ MealRow(last'.caller, input[i])
              /\ \A i, j \in 1..Len(input) :
                    i < j /\ results[i].success /\ results[j].success
                        => results[i].id < results[j].id]_vars

\* A sync of two records whose first insert failed and whose second went in.
C3_Witness ==
    /\ last.op = "meals.syncLocalMeals"
    /\ Len(Input(last)) = 2
    /\ ~Value(last)[1].success
    /\ Value(last)[2].success
    /\ \E r \in mealRecords : r.id = Value(last)[2].id /\ r.date = Input(last)[2].date

----------------------------------------------------------------------------
(* Login-time sync of the guest local cache: C4, C5 *)

\* C4: whenever fetchUser establishes an authenticated user while the client
\* holds locally cached records (stored, and loaded into the hook's state),
\* it invokes syncLocalMeals exactly once, with those records.
C4_SyncOncePerLogin ==
    [][(/\ last'.op = "fetchUser"
        /\ user' # NoUser
        /\ storage # <<>>
        /\ meals["useAuth"] = storage) =>
          /\ Len(syncCalls') = Len(syncCalls) + 1
          /\ syncCalls'[Len(syncCalls')] = [user |-> user', records |-> storage]]_vars

\* C5: once the login-time sync of fetchUser is over and the user is
\* established, the persisted guest local cache is empty.
C5_CacheClearedAfterLogin ==
    (last.op = "fetchUser" /\ user # NoUser) => storage = <<>>

----------------------------------------------------------------------------
(* Group store: C6 - C10 *)

HasMember(members, groupId, userId) ==
    \E m \in members : m.groupId = groupId /\ m.userId = userId

\* C6: a join of (group, user) through a valid invite code fails with the
\* already-a-member error and leaves group_members unchanged when a row for
\* (group, user) exists; otherwise it succeeds and adds exactly one row, for
\* (group, user) with role member.
C6_JoinRejectsExistingMember ==
    [][(last'.op = "groups.join" /\ \E g \in groups : g.inviteCode = Input(last')) =>
          LET g == CHOOSE x \in groups : x.inviteCode = Input(last')
              u == last'.caller
          IN  IF HasMember(groupMembers, g.id, u)
              THEN /\ ~last'.ok
                   /\ last'.error = "Error: Already a member of this group"
                   /\ groupMembers' = groupMembers
              ELSE /\ last'.ok
                   /\ groupMembers \subseteq groupMembers'
                   /\ \E m \in groupMembers' :
                        /\ groupMembers' \ groupMembers = {m}
                        /\ m.groupId = g.id /\ m.userId = u /\ m.role = "member"]_vars

\* A join refused for a user who had joined as a member before.
C6_Witness ==
    /\ last.op = "groups.join"
    /\ ~last.ok
    /\ last.error = "Error: Already a member of this group"
    /\ \E g \in groups, m \in groupMembers :
           /\ g.inviteCode = Input(last)
           /\ m.groupId = g.id /\ m.userId = last.caller /\ m.role = "member"

\* C7: deleteGroup succeeds exactly when the group exists and its ownerId is
\* the caller; otherwise it throws not-authorized and changes no group row
\* and no membership row; on success no membership row of the group remains
\* and getById finds no group.
C7_DeleteOnlyByOwner ==
    [][last'.op = "groups.delete" =>
          LET groupId == Input(last')
              owned   == \E g \in groups : g.id = groupId /\ g.ownerId = last'.caller
          IN  /\ last'.ok <=> owned
              /\ ~owned =>
                    /\ last'.error = "Error: Not authorized to delete this group"
                    /\ groups' = groups
                    /\ groupMembers' = groupMembers
              /\ owned =>
                    /\ ~\E m \in groupMembers' : m.groupId = groupId
                    /\ GetGroupById(GroupStore', groupId) = <<>>]_vars

\* An owner's delete has gone through while another group is still there.
C7_Witness ==
    /\ last.op = "groups.delete"
    /\ last.ok
    /\ GetGroupById(GroupStore, Input(last)) = <<>>
    /\ groups # {}

\* The alphabet the invite codes are said to be drawn from.
InviteAlphabet ==
    {"A", "B", "C", "D", "E", "F", "G", "H", "J", "K", "L", "M", "N", "P", "Q", "R",
     "S", "T", "U", "V", "W", "X", "Y", "Z", "2", "3", "4", "5", "6", "7", "8", "9"}

\* C8: the group groups.create returns has an inviteCode of exactly 8
\* characters, each of ABCDEFGHJKLMNPQRSTUVWXYZ23456789, and its creator has
\* a membership row in it with role owner.
C8_CreateReturnsCodeAndOwner ==
    (last.op = "groups.create" /\ last.ok) =>
        /\ Len(Value(last)) = 1
        /\ LET g == Value(last)[1]
           IN  /\ g \in groups
               /\ g.ownerId = last.caller
               /\ Len(g.inviteCode) = 8
               /\ \A i \in 1..Len(g.inviteCode) : g.inviteCode[i] \in InviteAlphabet
               /\ \E m \in groupMembers :
                      m.groupId = g.id /\ m.userId = last.caller /\ m.role = "owner"

\* A second group has been created and returned.
C8_Witness ==
    /\ last.op = "groups.create"
    /\ last.ok
    /\ Cardinality(groups) = 2
    /\ Value(last)[1].id = 2

Confusable == {"0", "O", "I", "1", "L"}

\* C9: no invite code of any group contains 0, O, I, 1 or L.
C9_NoConfusableCharacter ==
    \A g \in groups : \A i \in 1..Len(g.inviteCode) : g.inviteCode[i] \notin Confusable

\* C10: leave never fails; afterwards no row for (group, user) exists; when
\* there was none the table is unchanged; no row of another user or another
\* group is removed and nothing is added.
C10_LeaveIdempotent ==
    [][last'.op = "groups.leave" =>
          LET groupId == Input(last')
              u       == last'.caller
          IN  /\ last'.ok
              /\ ~HasMember(groupMembers', groupId, u)
              /\ ~HasMember(groupMembers, groupId, u) => groupMembers' = groupMembers
              /\ groupMembers' \subseteq groupMembers
              /\ \A m \in groupMembers :
                    (m.groupId # groupId \/ m.userId # u) => m \in groupMembers'
              /\ groups' = groups]_vars

\* The only group ever created still has its owner's row, and the one row a
\* join had added has been removed by the leaving member.
C10_Witness ==
    /\ last.op = "groups.leave"
    /\ last.ok
    /\ groupAutoInc = 2
    /\ memberAutoInc = 3
    /\ \E g \in groups :
           /\ g.id = Input(last)
           /\ g.ownerId # last.caller
           /\ groupMembers = {[id |-> 1, groupId |-> g.id, userId |-> g.ownerId,
                               role |-> "owner"]}

----------------------------------------------------------------------------
(* Group aggregation and access: C11, C12 *)

\* The display name of a user: the name in table users, none when unset.
DisplayName(userId) ==
    LET name == (CHOOSE u \in users : u.id = userId).name
    IN  IF name = "" THEN NULL ELSE name

\* C11: getMealsForDate(groupId, date) returns exactly the meal records of
\* that date whose userId has a membership row in the group, each with that
\* user's display name; nothing when the group has no member; never a record
\* of a non-member or of another date.
C11_GroupMealsOfMembersOnDate ==
    last.op = "groups.getMealsForDate" =>
        LET groupId == Input(last).groupId
            date    == Input(last).date
        IN  /\ Value(last) =
                   {[userName |-> DisplayName(r.userId)] @@ r :
                       r \in {x \in mealRecords :
                                 x.date = date /\ HasMember(groupMembers, groupId, x.userId)}}
            /\ (~\E m \in groupMembers : m.groupId = groupId) => Value(last) = {}
            /\ \A v \in Value(last) :
                   v.date = date /\ HasMember(groupMembers, groupId, v.userId)

\* A member's record came back while a non-member's record of the same date
\* stayed out.
C11_Witness ==
    /\ last.op = "groups.getMealsForDate"
    /\ Cardinality(Value(last)) = 1
    /\ \E r \in mealRecords :
           /\ r.date = Input(last).date
           /\ ~HasMember(groupMembers, Input(last).groupId, r.userId)

\* C12: groups.getMealsForDate and
\* recommendations.getGroupDinnerRecommendations disclose meals of a group's
\* members only to a caller who is a member of that group.
C12_GroupMealsOnlyToMembers ==
    /\ last.op = "groups.getMealsForDate" =>
           (Value(last) # {} => HasMember(groupMembers, Input(last).groupId, last.caller))
    /\ last.op = "recommendations.getGroupDinnerRecommendations" =>
           (DOMAIN Value(last).memberLunches # {}
               => HasMember(groupMembers, Input(last).groupId, last.caller))

----------------------------------------------------------------------------
(* Dinner recommendations: C13 - C15 *)

\* C13: getDinnerRecommendations returns a list of exactly 3 items, each
\* with the keys name, category and reason, whatever the completion service
\* did.
C13_AlwaysThreeItems ==
    last.op = "recommendations.getDinnerRecommendations" =>
        /\ last.ok
        /\ Len(Value(last)) = 1
        /\ Len(Value(last)[1]) = 3
        /\ \A i \in 1..Len(Value(last)[1]) :
               DOMAIN Value(last)[1][i] = {"name", "category", "reason"}

\* The completion call failed: it threw, its content is missing or no
\* string, or the content is not valid JSON.
CompletionFailed(response) ==
    \/ response.threw
    \/ response.content.type # "string"
    \/ response.content.text = ""
    \/ JSONParse(response.content.text).threw

\* C14: when the completion call has failed, getDinnerRecommendations and
\* getGroupDinnerRecommendations return without an error, and the
\* recommendations are the fixed three-item fallback and nothing else.
C14_FailureGivesFallback ==
    /\ (/\ last.op = "recommendations.getDinnerRecommendations"
        /\ CompletionFailed(Env(last)[1])) =>
           /\ last.ok
           /\ Value(last) = <<FallbackRecommendations>>
    /\ (/\ last.op = "recommendations.getGroupDinnerRecommendations"
        /\ Env(last) # <<>>
        /\ CompletionFailed(Env(last)[1])) =>
           /\ last.ok
           /\ Value(last).recommendations = <<FallbackRecommendations>>
    /\ Len(FallbackRecommendations) = 3

\* The group procedure got a text cut off in the middle and answered with
\* the fallback and the members' lunches.
C14_Witness ==
    /\ last.op = "recommendations.getGroupDinnerRecommendations"
    /\ Env(last) # <<>>
    /\ ~Env(last)[1].threw
    /\ Env(last)[1].content.text = JsonCut
    /\ Value(last).recommendations = <<FallbackRecommendations>>
    /\ DOMAIN Value(last).memberLunches # {}

\* C15: when no member of the group has a lunch record on the date,
\* getGroupDinnerRecommendations returns the fallback with an empty
\* memberLunches and does not call the completion service.
C15_NoLunchNoCompletionCall ==
    (/\ last.op = "recommendations.getGroupDinnerRecommendations"
     /\ ~\E r \in mealRecords :
            /\ r.date = Input(last).date
            /\ r.mealType = "lunch"
            /\ HasMember(groupMembers, Input(last).groupId, r.userId)) =>
        /\ Env(last) = <<>>
        /\ Value(last) = [recommendations |-> <<FallbackRecommendations>>,
                          memberLunches |-> <<>>]

\* The group has a member with a dinner on the date, a non-member has a
\* lunch on it, and the procedure did not ask the completion service.
C15_Witness ==
    /\ last.op = "recommendations.getGroupDinnerRecommendations"
    /\ Env(last) = <<>>
    /\ \E r \in mealRecords :
           /\ r.date = Input(last).date
           /\ r.mealType = "dinner"
           /\ HasMember(groupMembers, Input(last).groupId, r.userId)
    /\ \E r \in mealRecords :
           /\ r.date = Input(last).date
           /\ r.mealType = "lunch"
           /\ ~HasMember(groupMembers, Input(last).groupId, r.userId)

----------------------------------------------------------------------------
(* Record store: C16 - C18 *)

\* A meals.create input as the contract describes a valid one: a date
\* written YYYY-MM-DD, a meal type of lunch or dinner, a dish name of 1 to
\* 255 characters, one of the four categories.
ValidMealInput(input) ==
    /\ input.date \in DOMAIN DayOfDate
    /\ input.mealType \in {"lunch", "dinner"}
    /\ Len(input.dishName) \in 1..255
    /\ input.category \in {"japanese", "western", "chinese", "other"}

\* C16: meals.create hands every valid input to the store and, the insert
\* done, returns the id of exactly one new record owned by the caller and
\* holding the input; any other input is rejected with no store access and
\* meal_records unchanged.
C16_CreateValidatesInput ==
    [][last'.op = "meals.create" =>
          LET input == Input(last')[1]
          IN  IF ValidMealInput(input)
              THEN /\ Env(last') # <<>>
                   /\ Env(last') = <<TRUE>> =>
                         /\ last'.ok
                         /\ Value(last') \in Nat \ {0}
                         /\ mealRecords \subseteq mealRecords'
                         /\ \E r \in mealRecords' :
                               /\ mealRecords' \ mealRecords = {r}
                               /\ r.id = Value(last')
                               /\ r.userId = last'.caller
                               /\ r.date = input.date
                               /\ r.mealType = input.mealType
                               /\ r.dishName = input.dishName
                               /\ r.category = input.category
              ELSE /\ ~last'.ok
                   /\ Env(last') = <<>>
                   /\ mealRecords' = mealRecords
                   /\ mealAutoInc' = mealAutoInc]_vars

\* A dish name of 255 characters has been stored.
C16_Witness ==
    /\ last.op = "meals.create"
    /\ last.ok
    /\ Len(Input(last)[1].dishName) = 255
    /\ \E r \in mealRecords : r.id = Value(last) /\ Len(r.dishName) = 255

\* C17: meals.delete(id) never fails; it removes the record with that id
\* when the caller owns it and nothing else; on a record of another user or
\* an id no record has, meal_records is unchanged.
C17_DeleteOnlyOwnRecord ==
    [][last'.op = "meals.delete" =>
          LET id    == Input(last')
              owned == {r \in mealRecords : r.id = id /\ r.userId = last'.caller}
          IN  /\ last'.ok
              /\ mealRecords' = mealRecords \ owned
              /\ Cardinality(owned) <= 1
              /\ owned = {} => mealRecords' = mealRecords]_vars

\* A delete of another user's record has returned and the record is there.
C17_Witness ==
    /\ last.op = "meals.delete"
    /\ last.ok
    /\ \E r \in mealRecords : r.id = Input(last) /\ r.userId # last.caller

\* C18: once meals.create has stored a lunch for u on d, u having had no
\* record on d, getByDate(u, d) gives exactly that record and
\* getTodayLunch(u, d) gives it too; getByDate always gives the caller's
\* records of the date; getTodayLunch always gives a record of the caller, of
\* the date and of type lunch, and none exactly when there is no such
\* record.
C18_CreateThenRead ==
    [][/\ (/\ last'.op = "meals.create"
           /\ last'.ok
           /\ Input(last')[1].mealType = "lunch"
           /\ ~\E r \in mealRecords :
                  r.userId = last'.caller /\ r.date = Input(last')[1].date) =>
              LET u == last'.caller
                  d == Input(last')[1].date
              IN  \E r \in mealRecords' :
                      /\ r.id = Value(last')
                      /\ r.dishName = Input(last')[1].dishName
                      /\ r.category = Input(last')[1].category
                      /\ GetMealsByDate(mealRecords', u, d) = {r}
                      /\ GetTodayLunch(mealRecords', u, d) = {<<r>>}
       /\ last'.op = "meals.getByDate" =>
              Value(last') = {r \in mealRecords' :
                                 r.userId = last'.caller /\ r.date = Input(last')}
       /\ last'.op = "meals.getTodayLunch" =>
              LET lunches == {r \in mealRecords' :
                                 /\ r.userId = last'.caller
                                 /\ r.date = Input(last')
                                 /\ r.mealType = "lunch"}
              IN  /\ Value(last') = <<>> <=> lunches = {}
                  /\ Value(last') # <<>> => Value(last')[1] \in lunches]_vars

\* getTodayLunch has returned the caller's lunch while the caller also has a
\* dinner on that date.
C18_Witness ==
    /\ last.op = "meals.getTodayLunch"
    /\ Value(last) # <<>>
    /\ Value(last)[1] \in mealRecords
    /\ \E r \in mealRecords :
           /\ r.userId = last.caller
           /\ r.date = Input(last)
           /\ r.mealType = "dinner"

----------------------------------------------------------------------------
(* Reports: C19, C20 *)

\* The days of the week that starts on the day written str.
WeekOf(str) == DayOfDate[str]..(DayOfDate[str] + 6)

\* C19: getWeeklyReport reports weekEndDate as the week start plus 6
\* calendar days, and completionRate as round(completedDays / 7 * 100),
\* completedDays being the days of the week on which the caller has a lunch
\* and a dinner.
C19_WeekEndAndCompletionRate ==
    last.op = "reports.getWeeklyReport" =>
        LET completedDays ==
                Cardinality({n \in WeekOf(Input(last)) :
                    /\ \E r \in mealRecords : /\ r.userId = last.caller
                                              /\ DayOfDate[r.date] = n
                                              /\ r.mealType = "lunch"
                    /\ \E r \in mealRecords : /\ r.userId = last.caller
                                              /\ DayOfDate[r.date] = n
                                              /\ r.mealType = "dinner"})
        IN  /\ Value(last).weekEndDate = DateString[DayOfDate[Input(last)] + 6]
            /\ \E rate \in 0..100 :
                   /\ Value(last).completionRate = rate
                   /\ 2 * 7 * rate <= 2 * 100 * completedDays + 7
                   /\ 2 * 100 * completedDays + 7 < 2 * 7 * (rate + 1)

\* C20: when the caller has no meal record in the 7 days from weekStartDate
\* on, getNutritionAdvice returns the no-data response and does not call the
\* completion service.
C20_NoDataNoCompletionCall ==
    (/\ last.op = "reports.getNutritionAdvice"
     /\ ~\E r \in mealRecords :
            r.userId = last.caller /\ DayOfDate[r.date] \in WeekOf(Input(last))) =>
        /\ Env(last).llm = <<>>
        /\ Value(last) = NoDataAdvice

\* The no-data response went to a caller who has a record the day before
\* the week, while another user has a record inside the week.
C20_Witness ==
    /\ last.op = "reports.getNutritionAdvice"
    /\ Value(last) = NoDataAdvice
    /\ Env(last).llm = <<>>
    /\ \E r \in mealRecords :
           r.userId = last.caller /\ DayOfDate[r.date] = DayOfDate[Input(last)] - 1
    /\ \E r \in mealRecords :
           r.userId # last.caller /\ DayOfDate[r.date] \in WeekOf(Input(last))

\* C21: every response of reports.getNutritionAdvice carries a
\* nutritionScore that is an integer from 0 to 100, on the parsed path, on
\* the fallback path and on the no-data path.
C21_ScoreAlwaysInRange ==
    last.op = "reports.getNutritionAdvice" =>
        /\ "nutritionScore" \in DOMAIN Value(last)
        /\ Value(last).nutritionScore \in 0..100

\* C24: whatever complete create/join/leave/delete calls have run, the
\* group_members table holds at most one row per (group, user).
C24_OneRowPerGroupAndUser ==
    \A m1 \in groupMembers, m2 \in groupMembers :
        (m1.groupId = m2.groupId /\ m1.userId = m2.userId) => m1 = m2

\* A user who had joined and left has joined again: the third row ever
\* inserted is theirs, next to the row of another member of the group.
C24_Witness ==
    /\ last.op = "groups.join"
    /\ last.ok
    /\ \E m \in groupMembers :
           /\ m.id = 3
           /\ m.userId = last.caller
           /\ m.role = "member"
           /\ \E other \in groupMembers :
                  other.groupId = m.groupId /\ other.userId # m.userId

\* C28: every group's ownerId has a row of role owner in the group, and a
\* row of role owner in a group belongs to the group's ownerId.
C28_OwnerHasOwnerRow ==
    \A g \in groups :
        /\ \E m \in groupMembers :
               m.groupId = g.id /\ m.userId = g.ownerId /\ m.role = "owner"
        /\ \A m \in groupMembers :
               (m.groupId = g.id /\ m.role = "owner") => m.userId = g.ownerId

\* C22: without a database handle every list query of server/db.ts returns
\* an empty list, every single-record lookup returns null or undefined, none
\* of them throws, and every writing function throws.
C22_ReadsDegradeWritesThrow ==
    ~db =>
        /\ last.op \in DbLists => (last.ok /\ Value(last) = {})
        /\ last.op \in DbLookups => (last.ok /\ Value(last) = <<>>)
        /\ last.op \in DbWrites => ~last.ok

\* The favorite_meals row of that id, as <<row>> or <<>>.
FavoriteOf(rows, id) ==
    IF \E f \in rows : f.id = id THEN <<CHOOSE f \in rows : f.id = id>> ELSE <<>>

\* C23: a favorites.use that succeeds adds exactly 1 to the favorite's
\* usageCount and sets lastUsedAt, also when the record creation that
\* follows fails and no record is added; nothing else changes a usageCount.
C23_UseCountsEveryUse ==
    [][\A f \in favoriteMeals :
           LET after == FavoriteOf(favoriteMeals', f.id)
           IN  IF last'.op = "handleUseFavorite" /\ Input(last').id = f.id
               THEN /\ after # <<>>
                    /\ after[1].usageCount = f.usageCount + 1
                    /\ after[1].lastUsedAt # NULL
                    /\ ~last'.ok => mealRecords' = mealRecords
               ELSE after # <<>> => after[1].usageCount = f.usageCount]_vars

\* A favorite was used twice; the second record creation failed, and the
\* count of uses is above the number of records made from the favorite.
C23_Witness ==
    /\ last.op = "handleUseFavorite"
    /\ ~last.ok
    /\ Env(last) = <<FALSE>>
    /\ \E f \in favoriteMeals :
           /\ f.id = Input(last).id
           /\ f.usageCount = 2
           /\ Cardinality({r \in mealRecords :
                              r.userId = f.userId /\ r.dishName = f.dishName}) = 1

\* The membership rows of one (group, user) pair.
RowsOf(members, groupId, userId) ==
    {m \in members : m.groupId = groupId /\ m.userId = userId}

\* C25: a groups.join whose existence check found no row inserts its row
\* and returns without an error whatever another request has inserted since
\* the check: the check and the INSERT are two statements.
C25_JoinInsertsAfterPassedCheck ==
    [][\A r \in Requests :
           (/\ inflight[r] # Idle
            /\ inflight[r].pc = "insert"
            /\ inflight'[r] = Idle) =>
               /\ last'.op = "groups.join"
               /\ last'.ok
               /\ last'.caller = inflight[r].caller
               /\ Cardinality(RowsOf(groupMembers', inflight[r].groupId, inflight[r].caller))
                      = Cardinality(RowsOf(groupMembers, inflight[r].groupId,
                                           inflight[r].caller)) + 1]_vars

\* Two joins of the same user to the same group have both passed the check
\* and both returned the group: the user has two rows in the group.
C25_Witness ==
    /\ last.op = "groups.join"
    /\ last.ok
    /\ \E m1 \in groupMembers, m2 \in groupMembers :
           /\ m1.id # m2.id
           /\ m1.groupId = m2.groupId
           /\ m1.userId = last.caller
           /\ m2.userId = last.caller
           /\ m1.role = "member"
           /\ m2.role = "member"

\* C26: when createGroup's second INSERT fails, nothing is taken back and
\* no membership row is added: the group row inserted before (unless a
\* groups.delete has removed it in the meantime) stays and can be found by
\* its invite code, and unless somebody has joined it in the meantime it has
\* no membership row at all and is not among the creator's getUserGroups.
C26_FailedCreateKeepsGroupRow ==
    [][\A r \in Requests :
           (/\ inflight[r] # Idle
            /\ inflight[r].pc = "insertOwner"
            /\ inflight'[r] = Idle) =>
               LET call == inflight[r]
                   rowsBefore == {m \in groupMembers : m.groupId = call.groupId}
               IN  /\ ~last'.ok
                   /\ groupMembers' = groupMembers
                   /\ groups' = groups
                   /\ \A g \in groups' :
                          g.id = call.groupId =>
                              /\ g.ownerId = call.caller
                              /\ GetGroupByInviteCode(GroupStore', g.inviteCode) = <<g>>
                              /\ rowsBefore = {} =>
                                     /\ ~\E m \in groupMembers' : m.groupId = g.id
                                     /\ ~\E mine \in GetUserGroups(GroupStore', call.caller) :
                                            mine.id = g.id]_vars

\* groups.create has failed on its second INSERT: the group is there, found
\* by its invite code, without any membership row, and its creator's
\* getUserGroups is empty.
C26_Witness ==
    /\ last.op = "groups.create"
    /\ ~last.ok
    /\ last.error = "Error: insert failed"
    /\ \E g \in groups :
           /\ g.ownerId = last.caller
           /\ GetGroupByInviteCode(GroupStore, g.inviteCode) = <<g>>
           /\ ~\E m \in groupMembers : m.groupId = g.id
    /\ GetUserGroups(GroupStore, last.caller) = {}

\* C29: whatever the interleaving of groups.join and groups.delete, every
\* membership row a join has inserted names a group that exists.
C29_NoRowOfDeletedGroup ==
    \A m \in groupMembers : m.role = "member" => \E g \in groups : g.id = m.groupId

\* One step of a fetchUser call on the web keeps to the retry policy.
FetchStepKeepsPolicy ==
    /\ fetching' # NotFetching => fetching'.attempts <= 3
    /\ (fetching.pc = "getMe" /\ fetching' # fetching /\ fetching'.pc # "finish")
           => /\ Len(fetching'.thrown) = Len(fetching.thrown) + 1
              /\ fetching'.apiUser = NoUser
    /\ (fetching.pc = "finish" /\ fetching' # fetching)
           => /\ fetching' = NotFetching
              /\ loading' = FALSE
              /\ fetching.apiUser # NoUser => user' = fetching.apiUser
              /\ Len(fetching.thrown) = 3
                     => /\ user' = NoUser
                        /\ error' = fetching.thrown[3]

InList(m, list) == \E i \in 1..Len(list) : list[i] = m

\* C30: a record in the persisted guest cache stays there over every step
\* except the save of a deleteMeal of its id: no save of an addMeal, and no
\* save of a deleteMeal of another id, stores a list without it.
C30_SavesKeepEarlierRecords ==
    [][\A i \in 1..Len(storage) :
           \/ InList(storage[i], storage')
           \/ /\ saving # <<>>
              /\ Head(saving).op = "deleteMeal"
              /\ Head(saving).id = storage[i].id
              /\ saving' = Tail(saving)]_vars

====
